---- MODULE Spec2Model ----
(***************************************************************************)
(* Verification model of nepp2/live-programming-prototype.                 *)
(*                                                                         *)
(* Three state machines share this module:                                 *)
(*   Spec      - the bytecode compiler (src/src/bytecode_vm.rs and         *)
(*               src/compiler/legacy/compiler/bytecode_compile.rs) and the *)
(*               stack VM (interpret_bytecode);                            *)
(*   SpecLoad  - the unit manager (src/compiler/src/compiler.rs);          *)
(*   SpecInfer - the constraint solver (src/compiler/src/inference.rs).    *)
(* f32 values are modelled by integers (all programs use small integral    *)
(* literals, on which f32 arithmetic is exact).                            *)
(***************************************************************************)
EXTENDS Integers, Sequences, FiniteSets, TLC

VARIABLES
  \* --- bytecode compiler + VM
  ver,        \* "vm" (src/src/bytecode_vm.rs) or "legacy" (bytecode_compile.rs)
  ast,        \* the expression tree handed to the compiler
  program,    \* BytecodeProgram: [bytecode, info] (plus ghost node spans)
  stack,      \* the VM operand stack (Vec<Value>)
  callstack,  \* the VM call stack (Vec<Call>)
  c,          \* the current Call
  heap,       \* Rc<RefCell<..>> cells of arrays and structs
  status,     \* "source", "compiled", "running", "done", "error", "panic", ...
  result,     \* the value returned by interpret_bytecode
  steps,      \* number of VM instructions executed
  \* --- unit manager
  store,      \* CodeStore: live units, imports, polymorphic instances
  load,       \* the load in progress (or the idle record)
  history,    \* ghost: what past loads registered and handed to the backend
  \* --- constraint solver
  inf,        \* Inference state: constraints, resolved map, errors, passes
  \* --- text editor
  caret,      \* Caret: pos, pos_remembered, marker
  text_buffer \* the Rope, as its sequence of chars

vmvars == <<ver, ast, program, stack, callstack, c, heap, status, result, steps>>
loadvars == <<store, load, history>>
infvars == <<inf>>
editvars == <<caret, text_buffer>>
vars == <<ver, ast, program, stack, callstack, c, heap, status, result, steps,
          store, load, history, inf, caret, text_buffer>>

\* Caret {pos : 0, pos_remembered : 0, marker : None}
Caret_new == [pos |-> 0, pos_remembered |-> 0, marker |-> [some |-> FALSE, v |-> 0]]

\* ------------------------------------------------------------------------
\* Bounds of the model
\* ------------------------------------------------------------------------
MaxSteps == 60      \* VM instructions executed per run
MaxArgs == 2        \* arguments of the generated functions
MaxLets == 2        \* `let`s in a generated function body / caller
MaxDepth == 2       \* operands already on the stack when a call is made
MaxIter == 2        \* iterations of the generated loops

\* std::usize::MAX, the "label not yet placed" sentinel.  Any value that is
\* not an instruction index serves; TLC integers are 32 bit.
usize_MAX == 2147483647

\* ------------------------------------------------------------------------
\* Expression trees (parser::Expr): tag, symbol, literal value, children
\* ------------------------------------------------------------------------
LiteralFloat(n) == [tag |-> "LiteralFloat", s |-> "", v |-> n, kids |-> <<>>]
LiteralBool(b) == [tag |-> "LiteralBool", s |-> "", v |-> IF b THEN 1 ELSE 0, kids |-> <<>>]
Symbol(s) == [tag |-> "Symbol", s |-> s, v |-> 0, kids |-> <<>>]
Tree(s, kids) == [tag |-> "Tree", s |-> s, v |-> 0, kids |-> kids]

\* ------------------------------------------------------------------------
\* Values (value::Value)
\* ------------------------------------------------------------------------
VFloat(n) == [t |-> "Float", n |-> n]
VBool(b) == [t |-> "Bool", n |-> IF b THEN 1 ELSE 0]
VUnit == [t |-> "Unit", n |-> 0]
VArray(r) == [t |-> "Array", n |-> r]
VStruct(r) == [t |-> "Struct", n |-> r]
VFunction(h) == [t |-> "Function", n |-> h]

\* ------------------------------------------------------------------------
\* Instructions (BytecodeInstruction): op, numeric operand, name operand,
\* value operand
\* ------------------------------------------------------------------------
Instr(op, n, s, v) == [op |-> op, n |-> n, s |-> s, v |-> v]
BC_Push(v) == Instr("Push", 0, "", v)
BC_PushVar(k) == Instr("PushVar", k, "", VUnit)
BC_Pop == Instr("Pop", 0, "", VUnit)
BC_NewArray(n) == Instr("NewArray", n, "", VUnit)
BC_NewStruct(name) == Instr("NewStruct", 0, name, VUnit)
BC_StructFieldInit(i) == Instr("StructFieldInit", i, "", VUnit)
BC_PushStructField(name) == Instr("PushStructField", 0, name, VUnit)
BC_SetStructField(name) == Instr("SetStructField", 0, name, VUnit)
BC_ArrayIndex == Instr("ArrayIndex", 0, "", VUnit)
BC_SetArrayIndex == Instr("SetArrayIndex", 0, "", VUnit)
BC_SetVar(k) == Instr("SetVar", k, "", VUnit)
BC_CallFunction(h) == Instr("CallFunction", h, "Function", VUnit)
BC_CallFirstClassFunction == Instr("CallFirstClassFunction", 0, "", VUnit)
BC_JumpIfFalse(t) == Instr("JumpIfFalse", t, "", VUnit)
BC_Jump(t) == Instr("Jump", t, "", VUnit)
BC_BinaryOperator(s) == Instr("BinaryOperator", 0, s, VUnit)
BC_UnaryOperator(s) == Instr("UnaryOperator", 0, s, VUnit)
BC_Return == Instr("Return", 0, "", VUnit)

BYTECODE_OPERATORS == {"+", "-", "*", "/", ">", "<", "<=", ">=", "==", "&&", "||", "!"}

EmptyMap == [x \in {} |-> x]

\* ------------------------------------------------------------------------
\* Environment (one per function being compiled)
\* ------------------------------------------------------------------------
Environment_new(v, function_name, arguments, functions, structs) ==
  [ ver |-> v,
    function_name |-> function_name,
    arguments |-> arguments,
    functions |-> functions,
    structs |-> structs,
    locals |-> << [base_index |-> 0, vars |-> arguments] >>,
    labels |-> EmptyMap,
    max_locals |-> 0,
    instructions |-> <<>>,
    loop_break_labels |-> <<>>,
    err |-> "",          \* "" while no Err has been returned / no panic
    spans |-> {} ]       \* ghost: the instruction range of each compiled node

Fail(env, msg) == IF env.err # "" THEN env ELSE [env EXCEPT !.err = msg]

emit_always(env, instruction) ==
  IF env.err # "" THEN env
  ELSE [env EXCEPT !.instructions = Append(@, instruction)]

emit(env, instruction, do_emit) ==
  IF do_emit THEN emit_always(env, instruction) ELSE env

\* emit_label recording the position after the next instruction
emit_label_late(env, label) ==
  IF env.err # "" THEN env
  ELSE IF env.labels[label].location # usize_MAX
    THEN Fail(env, "panic: label used twice in compiler")
    ELSE [env EXCEPT !.labels[label].location = Len(env.instructions) + 1]

emit_label(env, label) ==
  IF env.err # "" THEN env
  ELSE IF env.labels[label].location # usize_MAX
    THEN Fail(env, "panic: label used twice in compiler")
    ELSE [env EXCEPT !.labels[label].location = Len(env.instructions)]

emit_jump(env, label) ==
  IF env.err # "" THEN env
  ELSE emit_always(
    [env EXCEPT !.labels[label].references = Append(@, Len(env.instructions))],
    BC_Jump(usize_MAX))

emit_jump_if_false(env, label) ==
  IF env.err # "" THEN env
  ELSE emit_always(
    [env EXCEPT !.labels[label].references = Append(@, Len(env.instructions))],
    BC_JumpIfFalse(usize_MAX))

\* The label `s_i` for the least i not yet taken.
label_name(env, s) ==
  LET n == Cardinality(DOMAIN env.labels)
      i == CHOOSE k \in 0..n :
             /\ <<s, k>> \notin DOMAIN env.labels
             /\ \A j \in 0..(k-1) : <<s, j>> \in DOMAIN env.labels
  IN <<s, i>>

label(env, l) ==
  IF env.err # "" THEN env
  ELSE [env EXCEPT !.labels = (l :> [location |-> usize_MAX, references |-> <<>>]) @@ @]

count_locals(env) ==
  IF Len(env.locals) = 0 THEN 0
  ELSE LET vs == env.locals[Len(env.locals)]
       IN vs.base_index + Len(vs.vars)

push_scope(env) ==
  IF env.err # "" THEN env
  ELSE [env EXCEPT !.locals =
          Append(@, [base_index |-> count_locals(env), vars |-> <<>>])]

pop_scope(env) ==
  IF env.err # "" THEN env
  ELSE LET new_local_count == count_locals(env)
       IN [env EXCEPT
             !.max_locals = IF new_local_count > @ THEN new_local_count ELSE @,
             !.locals = SubSeq(@, 1, Len(@) - 1)]

\* offset of the new variable is count_locals before the push
allocate_var_offset(env, name) ==
  IF env.err # "" THEN env
  ELSE [env EXCEPT !.locals[Len(env.locals)].vars = Append(@, name)]

\* Innermost scope first, latest declaration first; -1 stands for None.
get_var_offset_outermost(env, v) ==
  LET hits == { si \in 1..Len(env.locals) :
                  \E k \in 1..Len(env.locals[si].vars) : env.locals[si].vars[k] = v }
  IN IF hits = {} THEN -1
     ELSE LET si == CHOOSE h \in hits : \A g \in hits : h <= g
              vi == CHOOSE k \in 1..Len(env.locals[si].vars) :
                      env.locals[si].vars[k] = v
          IN env.locals[si].base_index + (vi - 1)

get_var_offset(env, v) ==
  LET hits == UNION { { <<si, vi>> : vi \in { k \in 1..Len(env.locals[si].vars) :
                                                  env.locals[si].vars[k] = v } } :
                      si \in 1..Len(env.locals) }
  IN IF hits = {} THEN -1
     ELSE LET best == CHOOSE h \in hits :
                        \A g \in hits : g[1] < h[1] \/ (g[1] = h[1] /\ g[2] <= h[2])
          IN env.locals[best[1]].base_index + (best[2] - 1)

\* intrinsics handed to compile_to_bytecode: name -> handle
Intrinsics == EmptyMap

\* [t, handle] or the record with t = "None"
get_callable(env, name) ==
  IF name \in DOMAIN env.functions
    THEN [t |-> "Function", handle |-> env.functions[name].handle]
  ELSE IF name \in DOMAIN Intrinsics
    THEN [t |-> "Intrinsic", handle |-> Intrinsics[name]]
  ELSE [t |-> "None", handle |-> 0]

\* Patch every recorded reference with its label's location and register
\* the function under its name; the handle is the number of functions
\* registered so far.
RECURSIVE patch_references(_, _, _)
patch_references(instructions, refs, location) ==
  IF refs = <<>> THEN instructions
  ELSE LET r == Head(refs)
           old == instructions[r + 1]
           new == IF old.op = "Jump" THEN BC_Jump(location)
                  ELSE BC_JumpIfFalse(location)
       IN patch_references([instructions EXCEPT ![r + 1] = new], Tail(refs), location)

RECURSIVE patch_labels(_, _, _)
patch_labels(instructions, labels, todo) ==
  IF todo = {} THEN instructions
  ELSE LET l == CHOOSE x \in todo : TRUE
       IN patch_labels(
            patch_references(instructions, labels[l].references, labels[l].location),
            labels, todo \ {l})

complete(env) ==
  IF env.err # "" THEN env
  ELSE LET function ==
             [ handle |-> Cardinality(DOMAIN env.functions),
               bytecode |-> patch_labels(env.instructions, env.labels, DOMAIN env.labels),
               info |-> [ name |-> env.function_name,
                          arguments |-> env.arguments,
                          locals |-> env.max_locals ],
               spans |-> env.spans ]
       IN [env EXCEPT !.functions = (env.function_name :> function) @@ @]


\* ------------------------------------------------------------------------
\* Static "type is Unit/Void" of an expression, as the (absent) type checker
\* reports it in Expr.type_info: statements are void, a block has the type
\* of its last child.
\* ------------------------------------------------------------------------
RECURSIVE type_is_unit(_)
type_is_unit(expr) ==
  IF expr.tag = "Symbol" THEN expr.s = "break"
  ELSE IF expr.tag # "Tree" THEN FALSE
  ELSE IF expr.s \in {"let", "=", "while", "fun", "struct_define"} THEN TRUE
  ELSE IF expr.s = "block"
    THEN Len(expr.kids) = 0 \/ type_is_unit(expr.kids[Len(expr.kids)])
  ELSE IF expr.s = "if"
    THEN Len(expr.kids) # 3 \/ type_is_unit(expr.kids[2])
  ELSE FALSE

does_not_push(env, push_answer) ==
  IF push_answer THEN Fail(env, "instruction is void, where a result is expected")
  ELSE env

\* The names of a (name, type, name, type, ...) list: the elements at the
\* even 0-based positions i with i + 1 < len (bytecode_vm.rs steps i by 2 up
\* to len-1, bytecode_compile.rs takes .tuples(); both drop an unpaired tail).
PairNames(xs) ==
  [i \in 1..(Len(xs) \div 2) |-> xs[2 * i - 1].s]

IndexOf(seq, x) ==
  IF \E i \in 1..Len(seq) : seq[i] = x
    THEN (CHOOSE i \in 1..Len(seq) : seq[i] = x /\ \A j \in 1..(i-1) : seq[j] # x) - 1
    ELSE -1

\* `let`: the new variable takes the next free slot of the innermost scope
declare_var(env, name) ==
  emit_always(allocate_var_offset(env, name), BC_SetVar(count_locals(env)))

\* `name = value`, the value being on the stack
assign_var(env, name) ==
  IF env.err # "" THEN env
  ELSE IF get_var_offset(env, name) = -1
    THEN Fail(env, "no variable with this name found in scope")
  ELSE emit_always(env, BC_SetVar(get_var_offset(env, name)))

\* `expr.field` and `expr.field = value`
field_op(env, field_name, op, do_emit) ==
  IF env.err # "" THEN env
  ELSE IF field_name.tag # "Symbol" THEN Fail(env, "expected a symbol")
  ELSE emit(env, Instr(op, 0, field_name.s, VUnit), do_emit)

\* field_index_map: def.fields.iter().enumerate() collected into a HashMap,
\* so a name the definition has twice maps to its last position
field_index_map(fields, field_name) ==
  (CHOOSE i \in 1..Len(fields) :
     fields[i] = field_name /\ \A j \in (i + 1)..Len(fields) : fields[j] # field_name) - 1

\* one field of a struct_instantiate, its value being compiled:
\* field_index_map.remove(field_name), then StructFieldInit(index)
field_init_no_remove(env, field_name, fields, remaining, push_answer) ==
  IF env.err # "" THEN env
  ELSE IF \A i \in 1..Len(fields) : fields[i] # field_name
    THEN Fail(env, "field does not exist")
  ELSE emit(env, BC_StructFieldInit(field_index_map(fields, field_name)), push_answer)

field_init(env, field_name, fields, remaining, push_answer) ==
  IF env.err # "" THEN env
  ELSE IF field_name \notin remaining THEN Fail(env, "field does not exist")
  ELSE emit(env, BC_StructFieldInit(field_index_map(fields, field_name)), push_answer)

pop_loop_break_label_keep(env) == env

pop_loop_break_label(env) ==
  IF env.err # "" THEN env
  ELSE [env EXCEPT !.loop_break_labels = SubSeq(@, 1, Len(@) - 1)]

\* bytecode_vm.rs: the callee is looked up after the arguments are compiled
call_by_name(env, name) ==
  IF env.err # "" THEN env
  ELSE IF name \notin DOMAIN env.functions
    THEN Fail(env, "Found no function with this name")
  ELSE emit_always(env, BC_CallFunction(env.functions[name].handle))

\* first-class call: the callee was spilled to the slot that opened the
\* innermost scope; reload it after the arguments and close the scope
reload_function_var_outermost(env) ==
  IF env.err # "" THEN env
  ELSE pop_scope(emit_always(env, BC_PushVar(env.locals[1].base_index)))

reload_function_var(env) ==
  IF env.err # "" THEN env
  ELSE pop_scope(emit_always(env, BC_PushVar(env.locals[Len(env.locals)].base_index)))

\* the end of compile_function: (legacy) Push(Unit) for a void body and
\* Return, then complete; the tables go back to the enclosing Environment
end_function(body, env, expect) ==
  LET done == complete(IF env.ver = "vm" THEN body
                       ELSE emit_always(emit(body, BC_Push(VUnit), ~expect), BC_Return))
  IN [env EXCEPT !.functions = done.functions,
                 !.structs = done.structs,
                 !.err = done.err]

RECURSIVE compile(_, _, _)
RECURSIVE compile_tree(_, _, _)
RECURSIVE compile_each(_, _, _, _)
RECURSIVE compile_function_call(_, _, _, _)
RECURSIVE compile_function(_, _, _, _)
RECURSIVE compile_struct_fields(_, _, _, _, _, _)

\* for i in from..: compile(&exprs[i], env, push)
compile_each(exprs, from, env, push) ==
  IF from > Len(exprs) \/ env.err # "" THEN env
  ELSE compile_each(exprs, from + 1, compile(exprs[from], env, push), push)

compile_function_call(function_expr, args, env, push_answer) ==
  IF env.ver = "vm" THEN
    \* bytecode_vm.rs: the callee must be a symbol naming a known function
    IF function_expr.tag # "Symbol" THEN Fail(env, "expected a symbol")
    ELSE emit(call_by_name(compile_each(args, 1, env, TRUE), function_expr.s),
              BC_Pop, ~push_answer)
  ELSE
    LET h == IF function_expr.tag = "Symbol" /\ get_var_offset(env, function_expr.s) = -1
               THEN get_callable(env, function_expr.s)
               ELSE [t |-> "None", handle |-> 0]
        called ==
          IF h.t # "None" THEN
            LET e1 == compile_each(args, 1, env, TRUE)
            IN emit_always(e1, Instr("CallFunction", h.handle, h.t, VUnit))
          ELSE
            emit_always(
              IF Len(args) > 0
                THEN reload_function_var(
                       compile_each(args, 1,
                         declare_var(push_scope(compile(function_expr, env, TRUE)),
                                     "[function_var]"),
                         TRUE))
                ELSE compile(function_expr, env, TRUE),
              BC_CallFirstClassFunction)
    IN emit(called, BC_Pop, ~push_answer)

\* for (field, value) pairs from position i: compile the value, take the
\* field's index out of field_index_map, emit StructFieldInit(index)
compile_struct_fields(exprs, i, fields, remaining, env, push_answer) ==
  IF env.err # "" THEN env
  ELSE IF i + 1 > Len(exprs) THEN
    IF remaining # {} THEN Fail(env, "Some fields not initialised") ELSE env
  ELSE IF exprs[i].tag # "Symbol" THEN Fail(env, "expected a symbol")
  ELSE compile_struct_fields(exprs, i + 2, fields, remaining \ {exprs[i].s},
         field_init(compile(exprs[i + 1], env, push_answer), exprs[i].s, fields,
                    remaining, push_answer),
         push_answer)

\* A nested function is compiled in a fresh Environment that shares the
\* function and struct tables; `expect` is the push_answer of its body.
compile_function(function_body, name, params, env) ==
  LET expect == IF env.ver = "vm" THEN TRUE ELSE ~type_is_unit(function_body)
  IN end_function(
       compile(function_body,
               Environment_new(env.ver, name, params, env.functions, env.structs),
               expect),
       env, expect)

compile_tree(expr, env, push_answer) ==
  LET instr == expr.s
      exprs == expr.kids
  IN
  CASE instr = "call" ->
         IF Len(exprs) < 1 THEN Fail(env, "panic: index out of bounds")
         ELSE IF env.ver = "vm" /\ exprs[1].tag # "Symbol" THEN Fail(env, "expected a symbol")
         ELSE IF exprs[1].tag = "Symbol" /\ exprs[1].s \in BYTECODE_OPERATORS THEN
           IF Len(exprs) = 3 THEN
             LET e1 == compile(exprs[2], env, push_answer)
                 e2 == compile(exprs[3], e1, push_answer)
             IN emit(e2, BC_BinaryOperator(exprs[1].s), push_answer)
           ELSE IF Len(exprs) = 2 THEN
             LET e1 == compile(exprs[2], env, push_answer)
             IN emit(e1, BC_UnaryOperator(exprs[1].s), push_answer)
           ELSE Fail(env, "wrong number of arguments for operator")
         ELSE compile_function_call(exprs[1], SubSeq(exprs, 2, Len(exprs)), env, push_answer)
    [] instr = "block" ->
         LET num_exprs == Len(exprs)
             e1 == push_scope(env)
             e2 == compile_each(SubSeq(exprs, 1, num_exprs - 1), 1, e1, FALSE)
             e3 == IF num_exprs > 0 THEN compile(exprs[num_exprs], e2, push_answer)
                   ELSE IF env.ver = "vm" THEN Fail(e2, "panic: attempt to subtract with overflow")
                   ELSE does_not_push(e2, push_answer)
         IN pop_scope(e3)
    [] instr = "let" ->
         LET e0 == does_not_push(env, push_answer)
         IN IF e0.err # "" THEN e0
            ELSE IF exprs[1].tag # "Symbol" THEN Fail(e0, "expected a symbol")
            ELSE declare_var(compile(exprs[2], e0, TRUE), exprs[1].s)
    [] instr = "=" /\ Len(exprs) = 3 ->
         LET assign_expr == exprs[2]
             value_expr == exprs[3]
         IN IF assign_expr.tag = "Symbol" THEN
              assign_var(compile(value_expr, does_not_push(env, push_answer), TRUE),
                         assign_expr.s)
            ELSE IF assign_expr.tag = "Tree" THEN
              LET e0 == does_not_push(env, push_answer)
              IN IF e0.err # "" THEN e0
                 ELSE IF assign_expr.s = "index" /\ Len(assign_expr.kids) = 2 THEN
                   LET e1 == compile(assign_expr.kids[1], e0, TRUE)
                       e2 == compile(assign_expr.kids[2], e1, TRUE)
                       e3 == compile(value_expr, e2, TRUE)
                   IN emit_always(e3, BC_SetArrayIndex)
                 ELSE IF assign_expr.s = "." /\ Len(assign_expr.kids) = 2 THEN
                   field_op(compile(value_expr, compile(assign_expr.kids[1], e0, TRUE), TRUE),
                            assign_expr.kids[2], "SetStructField", TRUE)
                 ELSE Fail(e0, "can't assign to this expression")
            ELSE Fail(env, "can't assign to this expression")
    [] instr = "if" ->
         LET arg_count == Len(exprs)
         IN IF arg_count < 2 \/ arg_count > 3 THEN Fail(env, "malformed if expression")
            ELSE
              LET false_label == label_name(env, "if_false_label")
                  l1 == label(env, false_label)
              IN IF arg_count = 3 THEN
                   LET else_end_label == label_name(l1, "else_end_label")
                       l2 == label(l1, else_end_label)
                       e1 == compile(exprs[1], l2, TRUE)
                       e2 == emit_jump_if_false(e1, false_label)
                       e3 == compile(exprs[2], e2, push_answer)
                       e4 == emit_jump(e3, else_end_label)
                       e5 == emit_label(e4, false_label)
                       e6 == compile(exprs[3], e5, push_answer)
                   IN emit_label(e6, else_end_label)
                 ELSE
                   LET e0 == does_not_push(l1, push_answer)
                       e1 == compile(exprs[1], e0, TRUE)
                       e2 == emit_jump_if_false(e1, false_label)
                       e3 == compile(exprs[2], e2, FALSE)
                   IN emit_label(e3, false_label)
    [] instr = "struct_define" ->
         IF Len(exprs) < 1 THEN Fail(env, "malformed struct definition")
         ELSE IF exprs[1].tag # "Symbol" THEN Fail(env, "expected a symbol")
         ELSE IF exprs[1].s \in DOMAIN env.structs
           THEN Fail(env, "A struct with this name has already been defined.")
         ELSE LET field_exprs == SubSeq(exprs, 2, Len(exprs))
              IN IF env.ver = "vm" /\ Len(field_exprs) = 0
                   THEN Fail(env, "panic: attempt to subtract with overflow")
                 ELSE IF \E i \in 1..(Len(field_exprs) \div 2) : field_exprs[2 * i - 1].tag # "Symbol"
                   THEN Fail(env, "expected a symbol")
                 ELSE LET fields == PairNames(field_exprs)
                      IN [env EXCEPT !.structs = (exprs[1].s :> fields) @@ @]
    [] instr = "struct_instantiate" ->
         IF Len(exprs) < 1 \/ Len(exprs) % 2 = 0 THEN Fail(env, "malformed struct instantiation")
         ELSE IF exprs[1].tag # "Symbol" THEN Fail(env, "expected a symbol")
         ELSE IF exprs[1].s \notin DOMAIN env.structs THEN Fail(env, "struct does not exist")
         ELSE LET fields == env.structs[exprs[1].s]
                  e1 == emit(env, BC_NewStruct(exprs[1].s), push_answer)
              IN compile_struct_fields(exprs, 2, fields,
                   {fields[i] : i \in 1..Len(fields)}, e1, push_answer)
    [] instr = "." /\ Len(exprs) = 3 ->
         field_op(compile(exprs[2], env, push_answer), exprs[3], "PushStructField",
                  push_answer)
    [] instr = "while" ->
         LET e0 == does_not_push(env, push_answer)
         IN IF e0.err # "" THEN e0
            ELSE IF Len(exprs) # 2 THEN Fail(e0, "malformed while block")
            ELSE
              LET condition_label == label_name(e0, "loop_condition")
                  l1 == label(e0, condition_label)
                  end_label == label_name(l1, "loop_end")
                  l2 == label(l1, end_label)
                  l3 == [l2 EXCEPT !.loop_break_labels = Append(@, end_label)]
                  e1 == emit_label(l3, condition_label)
                  e2 == compile(exprs[1], e1, TRUE)
                  e3 == emit_jump_if_false(e2, end_label)
                  e4 == compile(exprs[2], e3, FALSE)
                  e5 == emit_jump(e4, condition_label)
                  e6 == emit_label(e5, end_label)
              IN pop_loop_break_label(e6)
    [] instr = "fun" ->
         IF exprs[1].tag # "Symbol" THEN Fail(env, "expected a symbol")
         ELSE LET args_exprs == exprs[2].kids
              IN IF env.ver = "vm" /\ Len(args_exprs) = 0
                   THEN Fail(env, "panic: attempt to subtract with overflow")
                 ELSE IF \E i \in 1..(Len(args_exprs) \div 2) : args_exprs[2 * i - 1].tag # "Symbol"
                   THEN Fail(env, "expected a symbol")
                 ELSE compile_function(exprs[3], exprs[1].s, PairNames(args_exprs), env)
    [] instr = "literal_array" ->
         LET e1 == compile_each(exprs, 1, env, push_answer)
         IN emit(e1, BC_NewArray(Len(exprs)), push_answer)
    [] instr = "index" ->
         IF Len(exprs) = 2 THEN
           LET e1 == compile(exprs[1], env, push_answer)
               e2 == compile(exprs[2], e1, push_answer)
           IN emit(e2, BC_ArrayIndex, push_answer)
         ELSE Fail(env, "index instruction expected 2 arguments")
    [] OTHER -> Fail(env, "instruction is not supported by the interpreter")

record_span(out, start, expr, push_answer) ==
  IF out.err # "" THEN out
  ELSE [out EXCEPT !.spans = @ \cup
          {[start |-> start, end |-> Len(out.instructions),
            delta |-> IF push_answer /\ ~type_is_unit(expr) THEN 1 ELSE 0]}]

compile_symbol(expr, env, push_answer) ==
  IF expr.s = "break" THEN
    IF Len(env.loop_break_labels) > 0
      THEN emit_jump(env, env.loop_break_labels[Len(env.loop_break_labels)])
      ELSE Fail(env, "can't break outside a loop")
  ELSE
    LET offset == get_var_offset(env, expr.s)
        callable == get_callable(env, expr.s)
    IN IF offset # -1 THEN emit(env, BC_PushVar(offset), push_answer)
       ELSE IF env.ver = "vm"
         THEN Fail(env, "no variable with this name found in scope")
       ELSE IF callable.t # "None"
         THEN emit(env, BC_Push([t |-> callable.t, n |-> callable.handle]), push_answer)
       ELSE Fail(env, "no variable or function in scope with this name")

compile(expr, env, push_answer) ==
  IF env.err # "" THEN env
  ELSE record_span(
         CASE expr.tag = "Tree" -> compile_tree(expr, env, push_answer)
           [] expr.tag = "Symbol" -> compile_symbol(expr, env, push_answer)
           [] expr.tag = "LiteralFloat" -> emit(env, BC_Push(VFloat(expr.v)), push_answer)
           [] expr.tag = "LiteralBool" -> emit(env, BC_Push(VBool(expr.v = 1)), push_answer),
         Len(env.instructions), expr, push_answer)

\* All orders of the function table that sort_unstable_by_key(handle) can
\* produce (a HashMap iterates in an arbitrary order; equal keys may land in
\* either order).
SortedByHandle(functions) ==
  LET names == DOMAIN functions
      n == Cardinality(names)
  IN { s \in [1..n -> names] :
         /\ \A i, j \in 1..n : i # j => s[i] # s[j]
         /\ \A i \in 1..(n - 1) : functions[s[i]].handle <= functions[s[i + 1]].handle }

\* compile_bytecode (bytecode_vm.rs) / compile_to_bytecode (legacy): the
\* entry function is compiled first, nested `fun`s complete before it.
compile_entry(v, expr, entry_function_name) ==
  IF v = "vm" THEN
    LET env == Environment_new(v, entry_function_name, <<>>, EmptyMap, EmptyMap)
    IN complete(compile(expr, env, TRUE))
  ELSE
    LET top == Environment_new(v, "", <<>>, EmptyMap, EmptyMap)
    IN compile_function(expr, entry_function_name, <<>>, top)

BytecodeProgram(functions, order) ==
  [ bytecode |-> [i \in 1..Len(order) |-> functions[order[i]].bytecode],
    info |-> [i \in 1..Len(order) |-> functions[order[i]].info],
    spans |-> [i \in 1..Len(order) |-> functions[order[i]].spans],
    handles |-> [i \in 1..Len(order) |-> functions[order[i]].handle],
    structs |-> EmptyMap ]


\* ------------------------------------------------------------------------
\* The VM (bytecode_vm.rs, interpret_bytecode)
\* ------------------------------------------------------------------------
Top(s) == s[Len(s)]
Pop1(s) == SubSeq(s, 1, Len(s) - 1)
PopN(s, n) == SubSeq(s, 1, Len(s) - n)

\* Vec::truncate(len): no effect when the vector is already shorter
Truncate(s, n) == IF n >= Len(s) THEN s ELSE SubSeq(s, 1, n)

Call(function_handle, var_base, program_counter, entry) ==
  [function_handle |-> function_handle, var_base |-> var_base,
   program_counter |-> program_counter, entry |-> entry]

NoCall == Call(0, 0, 0, EmptyMap)

\* Ghost bookkeeping for the node spans: after control moved from
\* instruction p to instruction t of the same frame, forget the spans that
\* were completed at p or were left sideways, and record the stack height h
\* for the spans entered at t.
TrackSpans(spans, entry, p, t, h) ==
  LET kept == { s \in DOMAIN entry : s.end # p /\ s.start <= t /\ t <= s.end }
      entered == { s \in spans : s.start = t /\ s \notin kept }
  IN [s \in kept \cup entered |-> IF s \in kept THEN entry[s] ELSE h]

EnterSpans(spans, h) ==
  [s \in { x \in spans : x.start = 0 } |-> h]

\* A VM configuration
Vm(st, cs, cc, hp, sts, res) ==
  [stack |-> st, callstack |-> cs, c |-> cc, heap |-> hp, status |-> sts, result |-> res]

Stop(vm, sts) == [vm EXCEPT !.status = sts]

\* new_function_call: reserve the locals above the arguments already pushed
new_function_call(prog, vm, function_handle) ==
  IF function_handle + 1 > Len(prog.info) THEN Stop(vm, "panic")
  ELSE LET info == prog.info[function_handle + 1]
           args == Len(info.arguments)
       IN IF info.locals < args THEN Stop(vm, "panic")   \* usize underflow
          ELSE LET st == vm.stack \o [i \in 1..(info.locals - args) |-> VUnit]
               IN IF Len(st) < info.locals THEN Stop(vm, "panic")
                  ELSE [vm EXCEPT
                         !.stack = st,
                         !.c = Call(function_handle, Len(st) - info.locals, 0,
                                    EnterSpans(prog.spans[function_handle + 1], Len(st)))]

\* move to the next instruction of the current frame
Advance(prog, vm, st, hp, t) ==
  [vm EXCEPT !.stack = st, !.heap = hp,
             !.c = [vm.c EXCEPT
                      !.program_counter = t,
                      !.entry = TrackSpans(prog.spans[vm.c.function_handle + 1],
                                           vm.c.entry, vm.c.program_counter, t, Len(st))]]

\* The function ran off the end of its instructions
ReturnFromCall(prog, vm) ==
  IF Len(vm.stack) = 0 THEN Stop(vm, "panic")              \* pop().unwrap()
  ELSE LET return_value == Top(vm.stack)
       IN IF vm.c.var_base = 0
            THEN [vm EXCEPT !.stack = Pop1(vm.stack), !.status = "done",
                            !.result = return_value]
          ELSE IF Len(vm.callstack) = 0 THEN Stop(vm, "panic")   \* pop().unwrap()
          ELSE LET caller == Top(vm.callstack)
                   st == Append(Truncate(Pop1(vm.stack), vm.c.var_base), return_value)
               IN Advance(prog,
                          [vm EXCEPT !.callstack = Pop1(vm.callstack), !.c = caller],
                          st, vm.heap, caller.program_counter + 1)

RECURSIVE value_eq(_, _, _)
value_eq(a, b, hp) ==
  IF a.t # b.t THEN FALSE
  ELSE IF a.t \in {"Array", "Struct"} THEN
    LET x == hp[a.n]
        y == hp[b.n]
    IN /\ x.def = y.def
       /\ Len(x.items) = Len(y.items)
       /\ \A i \in 1..Len(x.items) : value_eq(x.items[i], y.items[i], hp)
  ELSE a.n = b.n

\* array_index: `index as usize` saturates a negative f32 to 0; the bounds
\* test then rejects negatives
array_index_clamped(array, index) ==
  IF Len(array) = 0 THEN -1
  ELSE IF index < 0 THEN 0
  ELSE IF index >= Len(array) THEN Len(array) - 1 ELSE index

array_index(array, index) ==
  LET i == IF index < 0 THEN 0 ELSE index
  IN IF index >= 0 /\ i < Len(array) THEN i ELSE -1

BinaryOperator(operator, a, b, hp) ==
  LET ff == a.t = "Float" /\ b.t = "Float"
      bb == a.t = "Bool" /\ b.t = "Bool"
      bad == [t |-> "Err", n |-> 0]
  IN CASE operator = "+" -> IF ff THEN VFloat(a.n + b.n) ELSE bad
       [] operator = "-" -> IF ff THEN VFloat(a.n - b.n) ELSE bad
       [] operator = "*" -> IF ff THEN VFloat(a.n * b.n) ELSE bad
       [] operator = "/" -> IF ff /\ b.n # 0 /\ a.n % b.n = 0
                              THEN VFloat(a.n \div b.n) ELSE bad
       [] operator = ">" -> IF ff THEN VBool(a.n > b.n) ELSE bad
       [] operator = "<" -> IF ff THEN VBool(a.n < b.n) ELSE bad
       [] operator = "<=" -> IF ff THEN VBool(a.n <= b.n) ELSE bad
       [] operator = ">=" -> IF ff THEN VBool(a.n >= b.n) ELSE bad
       [] operator = "==" -> VBool(value_eq(a, b, hp))
       [] operator = "&&" -> IF a.t # "Bool" THEN bad
                             ELSE IF a.n = 0 THEN VBool(FALSE)
                             ELSE IF b.t # "Bool" THEN bad ELSE VBool(b.n = 1)
       [] operator = "||" -> IF a.t # "Bool" THEN bad
                             ELSE IF a.n = 1 THEN VBool(TRUE)
                             ELSE IF b.t # "Bool" THEN bad ELSE VBool(b.n = 1)
       [] OTHER -> bad

UnaryOperator(operator, a) ==
  CASE operator = "-" -> IF a.t = "Float" THEN VFloat(0 - a.n) ELSE [t |-> "Err", n |-> 0]
    [] operator = "!" -> IF a.t = "Bool" THEN VBool(a.n = 0) ELSE [t |-> "Err", n |-> 0]
    [] OTHER -> [t |-> "Err", n |-> 0]

Cell(def, items) == [def |-> def, items |-> items]

\* Instructions that exist only in the legacy instruction set; their VM is
\* not part of the sources, so they follow the instruction table of the
\* specification: Return pops the result and restores the caller frame (the
\* outermost frame yields the program result), CallFirstClassFunction pops
\* the callee value and calls it.
LegacyInstruction(prog, vm, ins) ==
  CASE ins.op = "Return" ->
         IF Len(vm.stack) = 0 THEN Stop(vm, "panic")
         ELSE IF Len(vm.callstack) = 0
           THEN [vm EXCEPT !.stack = Pop1(vm.stack), !.status = "done",
                           !.result = Top(vm.stack)]
         ELSE LET caller == Top(vm.callstack)
                  st == Append(Truncate(Pop1(vm.stack), vm.c.var_base), Top(vm.stack))
              IN Advance(prog, [vm EXCEPT !.callstack = Pop1(vm.callstack), !.c = caller],
                         st, vm.heap, caller.program_counter + 1)
    [] ins.op = "CallFirstClassFunction" ->
         IF Len(vm.stack) = 0 THEN Stop(vm, "panic")
         ELSE IF Top(vm.stack).t # "Function" THEN Stop(vm, "error")
         ELSE new_function_call(prog,
                [vm EXCEPT !.stack = Pop1(vm.stack), !.callstack = Append(@, vm.c)],
                Top(vm.stack).n)
    [] OTHER -> Stop(vm, "error")

\* `array[i] = v` / `fields[index] = v` through borrow_mut(): the write goes
\* to the one container every clone of the handle points to
container_set_copy(hp, r, i, v) == hp
container_set(hp, r, i, v) == [hp EXCEPT ![r].items[i + 1] = v]

\* One turn of the interpreter loop
interpret_instruction(prog, vm) ==
  LET instructions == prog.bytecode[vm.c.function_handle + 1]
      pc == vm.c.program_counter
      st == vm.stack
      n == Len(st)
      hp == vm.heap
  IN
  IF pc >= Len(instructions) THEN ReturnFromCall(prog, vm)
  ELSE
    LET ins == instructions[pc + 1]
        slot == vm.c.var_base + ins.n
    IN
    CASE ins.op = "Push" -> Advance(prog, vm, Append(st, ins.v), hp, pc + 1)
      [] ins.op = "Pop" -> Advance(prog, vm, IF n = 0 THEN st ELSE Pop1(st), hp, pc + 1)
      [] ins.op = "PushVar" ->
           IF slot >= n THEN Stop(vm, "panic")
           ELSE Advance(prog, vm, Append(st, st[slot + 1]), hp, pc + 1)
      [] ins.op = "NewArray" ->
           IF n < ins.n THEN Stop(vm, "panic")
           ELSE Advance(prog, vm,
                  Append(PopN(st, ins.n), VArray(Len(hp) + 1)),
                  Append(hp, Cell("", SubSeq(st, n - ins.n + 1, n))), pc + 1)
      [] ins.op = "ArrayIndex" ->
           IF n < 1 THEN Stop(vm, "panic")
           ELSE IF st[n].t # "Float" THEN Stop(vm, "error")
           ELSE IF n < 2 THEN Stop(vm, "panic")
           ELSE IF st[n - 1].t # "Array" THEN Stop(vm, "error")
           ELSE LET a == hp[st[n - 1].n].items
                    i == array_index(a, st[n].n)
                IN IF i = -1 THEN Stop(vm, "error")
                   ELSE Advance(prog, vm, Append(PopN(st, 2), a[i + 1]), hp, pc + 1)
      [] ins.op = "SetArrayIndex" ->
           IF n < 2 THEN Stop(vm, "panic")
           ELSE IF st[n - 1].t # "Float" THEN Stop(vm, "error")
           ELSE IF n < 3 THEN Stop(vm, "panic")
           ELSE IF st[n - 2].t # "Array" THEN Stop(vm, "error")
           ELSE LET r == st[n - 2].n
                    i == array_index(hp[r].items, st[n - 1].n)
                IN IF i = -1 THEN Stop(vm, "error")
                   ELSE Advance(prog, vm, PopN(st, 3),
                          container_set(hp, r, i, st[n]), pc + 1)
      [] ins.op = "NewStruct" ->
           Advance(prog, vm, Append(st, VStruct(Len(hp) + 1)),
             Append(hp, Cell(ins.s, [i \in 1..Len(prog.structs[ins.s]) |-> VUnit])), pc + 1)
      [] ins.op = "StructFieldInit" ->
           IF n < 2 THEN Stop(vm, "panic")
           ELSE IF st[n - 1].t # "Struct" THEN Stop(vm, "error")
           ELSE IF ins.n >= Len(hp[st[n - 1].n].items) THEN Stop(vm, "panic")
           ELSE Advance(prog, vm, Pop1(st),
                  container_set(hp, st[n - 1].n, ins.n, st[n]), pc + 1)
      [] ins.op = "PushStructField" ->
           IF n < 1 THEN Stop(vm, "panic")
           ELSE IF st[n].t # "Struct" THEN Stop(vm, "error")
           ELSE LET cell == hp[st[n].n]
                    index == IndexOf(prog.structs[cell.def], ins.s)
                IN IF index = -1 THEN Stop(vm, "error")
                   ELSE Advance(prog, vm, Append(Pop1(st), cell.items[index + 1]), hp, pc + 1)
      [] ins.op = "SetStructField" ->
           IF n < 2 THEN Stop(vm, "panic")
           ELSE IF st[n - 1].t # "Struct" THEN Stop(vm, "error")
           ELSE LET r == st[n - 1].n
                    index == IndexOf(prog.structs[hp[r].def], ins.s)
                IN IF index = -1 THEN Stop(vm, "error")
                   ELSE Advance(prog, vm, PopN(st, 2),
                          container_set(hp, r, index, st[n]), pc + 1)
      [] ins.op = "SetVar" ->
           IF n < 1 \/ slot >= n - 1 THEN Stop(vm, "panic")
           ELSE Advance(prog, vm, [Pop1(st) EXCEPT ![slot + 1] = st[n]], hp, pc + 1)
      [] ins.op = "CallFunction" /\ ins.s = "Function" ->
           new_function_call(prog, [vm EXCEPT !.callstack = Append(@, vm.c)], ins.n)
      [] ins.op = "JumpIfFalse" ->
           IF n < 1 THEN Stop(vm, "panic")
           ELSE IF st[n].t # "Bool" THEN Stop(vm, "error")
           ELSE Advance(prog, vm, Pop1(st), hp, IF st[n].n = 0 THEN ins.n ELSE pc + 1)
      [] ins.op = "Jump" -> Advance(prog, vm, st, hp, ins.n)
      [] ins.op = "BinaryOperator" ->
           IF n < 2 THEN Stop(vm, "panic")
           ELSE LET v == BinaryOperator(ins.s, st[n - 1], st[n], hp)
                IN IF v.t = "Err" THEN Stop(vm, "error")
                   ELSE Advance(prog, vm, Append(PopN(st, 2), v), hp, pc + 1)
      [] ins.op = "UnaryOperator" ->
           IF n < 1 THEN Stop(vm, "panic")
           ELSE LET v == UnaryOperator(ins.s, st[n])
                IN IF v.t = "Err" THEN Stop(vm, "error")
                   ELSE Advance(prog, vm, Append(Pop1(st), v), hp, pc + 1)
      [] OTHER -> LegacyInstruction(prog, vm, ins)


\* ------------------------------------------------------------------------
\* Source programs
\* ------------------------------------------------------------------------
Block(xs) == Tree("block", xs)
Let(name, e) == Tree("let", <<Symbol(name), e>>)
Assign(lhs, e) == Tree("=", <<Symbol("="), lhs, e>>)
Op2(o, a, b) == Tree("call", <<Symbol(o), a, b>>)
Op1(o, a) == Tree("call", <<Symbol(o), a>>)
CallF(f, args) == Tree("call", <<f>> \o args)
If(cnd, a) == Tree("if", <<cnd, a>>)
IfElse(cnd, a, b) == Tree("if", <<cnd, a, b>>)
While(cnd, body) == Tree("while", <<cnd, body>>)
ArrayLit(xs) == Tree("literal_array", xs)
Index(a, i) == Tree("index", <<a, i>>)
Params(names) ==
  Tree("args", [i \in 1..(2 * Len(names)) |->
                  IF i % 2 = 1 THEN Symbol(names[(i + 1) \div 2]) ELSE Symbol("float")])
Fun(name, names, body) == Tree("fun", <<Symbol(name), Params(names), body>>)

ArgNames == <<"a", "b", "c", "d">>
LetNames == <<"x", "y", "z", "w">>

\* the programs of tests.rs that need no intrinsic and no `return`
TestPrograms ==
  { Block(<<Op2("+", LiteralFloat(4), LiteralFloat(5))>>),
    Block(<<Op1("-", Op2("-", LiteralFloat(4), LiteralFloat(5)))>>),
    Block(<<Op2("+", LiteralFloat(4),
              Block(<<Let("a", LiteralFloat(5)), Let("b", LiteralFloat(4)), Symbol("a")>>))>>),
    Block(<<IfElse(LiteralBool(TRUE), Block(<<LiteralFloat(3)>>), Block(<<LiteralFloat(4)>>))>>),
    Block(<<IfElse(LiteralBool(FALSE), Block(<<LiteralFloat(3)>>), Block(<<LiteralFloat(4)>>))>>),
    Block(<<Let("a", LiteralFloat(5)), Symbol("a")>>),
    Block(<<Op2("&&", LiteralBool(TRUE), LiteralBool(FALSE))>>),
    Block(<<Op2("||", LiteralBool(TRUE), LiteralBool(FALSE))>>),
    \* test_scope
    Block(<<Let("a", LiteralFloat(4)), Let("b", LiteralFloat(0)),
            If(LiteralBool(TRUE),
               Block(<<Let("a", LiteralFloat(5)),
                       Assign(Symbol("b"), Op2("+", Symbol("b"), Symbol("a")))>>)),
            Assign(Symbol("b"), Op2("+", Symbol("b"), Symbol("a"))),
            Symbol("b")>>),
    \* test_arrays
    Block(<<Let("a", ArrayLit(<<LiteralFloat(0),
                                ArrayLit(<<LiteralFloat(1), LiteralFloat(2), LiteralFloat(3)>>),
                                LiteralFloat(6)>>)),
            Assign(Index(Index(Symbol("a"), LiteralFloat(1)), LiteralFloat(1)), LiteralFloat(50)),
            Op2("+", Index(Index(Symbol("a"), LiteralFloat(1)), LiteralFloat(1)),
                     Index(Symbol("a"), LiteralFloat(2)))>>),
    \* test_while (with smaller counts)
    Block(<<Let("x", LiteralFloat(MaxIter + 1)),
            While(LiteralBool(TRUE),
                  Block(<<Assign(Symbol("x"), Op2("-", Symbol("x"), LiteralFloat(1))),
                          If(Op2("<=", Symbol("x"), LiteralFloat(1)), Block(<<Symbol("break")>>))>>)),
            Symbol("x")>>),
    Block(<<Let("x", LiteralFloat(1)),
            While(Op2("<", Symbol("x"), LiteralFloat(MaxIter + 1)),
                  Block(<<Assign(Symbol("x"), Op2("+", Symbol("x"), LiteralFloat(1)))>>)),
            Symbol("x")>>) }

\* test_and_or: `let a = 0; l op { a = 1; r }; a`, as a statement and as
\* the value of a `let`
ShortCircuitPrograms ==
  { Block(<<Let("a", LiteralFloat(0)),
            Op2(o, LiteralBool(l), Block(<<Assign(Symbol("a"), LiteralFloat(1)), LiteralBool(r)>>)),
            Symbol("a")>>) : o \in {"&&", "||"}, l \in BOOLEAN, r \in BOOLEAN }
  \cup
  { Block(<<Let("a", LiteralFloat(0)),
            Let("t", Op2(o, LiteralBool(l),
                      Block(<<Assign(Symbol("a"), LiteralFloat(1)), LiteralBool(r)>>))),
            Symbol("a")>>) : o \in {"&&", "||"}, l \in BOOLEAN, r \in BOOLEAN }

\* A function f of na arguments whose body declares nl locals, called from
\* a top level that declared cl locals, with d operands already pushed:
\*   fun f(a, ..) { let x = 1; ..; 7 }   let x = 0; ..   1 + (1 + f(1, ..)) + 2
NestCall(d, e) ==
  IF d = 0 THEN e
  ELSE IF d = 1 THEN Op2("+", LiteralFloat(1), e)
  ELSE IF d = 2 THEN Op2("+", LiteralFloat(1), Op2("+", LiteralFloat(1), e))
  ELSE Op2("+", LiteralFloat(1), Op2("+", LiteralFloat(1), Op2("+", LiteralFloat(1), e)))

CallProgram(na, nl, cl, d, blockBody) ==
  LET lets(k) == [i \in 1..k |-> Let(LetNames[i], LiteralFloat(i))]
      ret == IF na > 0 THEN Symbol(ArgNames[1]) ELSE LiteralFloat(7)
      body == IF blockBody THEN Block(lets(nl) \o <<ret>>) ELSE ret
      callf == CallF(Symbol("f"), [i \in 1..na |-> LiteralFloat(10 * i)])
  IN Block(<<Fun("f", SubSeq(ArgNames, 1, na), body)>> \o lets(cl) \o
           <<Op2("+", NestCall(d, callf), LiteralFloat(2))>>)

CallPrograms ==
  { CallProgram(na, nl, cl, d, TRUE) :
      na \in 0..MaxArgs, nl \in 0..MaxLets, cl \in 0..MaxLets, d \in 0..MaxDepth }
  \cup
  { CallProgram(na, 0, cl, 0, FALSE) : na \in 0..MaxArgs, cl \in 0..1 }

\* Loops that are left through `break`, from a statement and from the
\* middle of an expression: `{ break; e }` is a block of e's type
BreakThen(e) == Block(<<Symbol("break"), e>>)

LoopPrograms ==
  { Block(<<Let("x", LiteralFloat(0)),
            While(Op2("<", Symbol("x"), LiteralFloat(k)),
                  Block(<<Assign(Symbol("x"), Op2("+", Symbol("x"), LiteralFloat(1))), b>>)),
            Symbol("x")>>) :
      k \in 0..MaxIter,
      b \in { If(Op2(">=", Symbol("x"), LiteralFloat(1)), Block(<<Symbol("break")>>)),
              Symbol("break"),
              Let("y", Op2("+", LiteralFloat(1), BreakThen(LiteralFloat(2)))),
              Let("y", ArrayLit(<<LiteralFloat(1), BreakThen(LiteralFloat(2))>>)),
              While(LiteralBool(TRUE), Block(<<Symbol("break")>>)),
              Op2("+", Symbol("x"), LiteralFloat(1)) } }
  \cup
  { Block(<<Symbol("break")>>),
    Block(<<While(LiteralBool(TRUE), Block(<<Fun("g", <<"a">>, Block(<<Symbol("break")>>)),
                                              Symbol("break")>>)),
            LiteralFloat(1)>>) }

\* if/else in value and statement position, nested, at the end of a function
IfPrograms ==
  { Block(<<Fun("f", <<"a">>, Block(<<IfElse(Symbol("a"), t, e)>>)),
            Let("x", LiteralFloat(0)),
            CallF(Symbol("f"), <<LiteralBool(b)>>)>>) :
      b \in BOOLEAN,
      t \in { LiteralFloat(10), Block(<<LiteralFloat(10)>>),
              IfElse(LiteralBool(TRUE), LiteralFloat(1), LiteralFloat(2)) },
      e \in { LiteralFloat(20), Block(<<Let("y", LiteralFloat(1)), Symbol("y")>>) } }
  \cup
  { Block(<<Let("x", LiteralFloat(0)),
            If(LiteralBool(b), Block(<<Assign(Symbol("x"), LiteralFloat(1))>>)),
            IfElse(LiteralBool(b), Assign(Symbol("x"), LiteralFloat(2)),
                                   Assign(Symbol("x"), LiteralFloat(3))),
            Symbol("x")>>) : b \in BOOLEAN }
  \cup
  { IfElse(LiteralBool(b), LiteralFloat(1), LiteralFloat(2)) : b \in BOOLEAN }

\* first-class calls (legacy compiler only; bytecode_vm.rs rejects them)
FirstClassPrograms ==
  { Block(<<Fun("f", <<"a", "b">>, Block(<<Op2("-", Symbol("a"), Symbol("b"))>>)),
            Let("g", Symbol("f")),
            CallF(Symbol("g"), <<LiteralFloat(5), x>>)>>) :
      x \in { LiteralFloat(2), Block(<<Let("h", LiteralFloat(3)), Symbol("h")>>) } }
  \cup
  { Block(<<Fun("k", <<>>, Block(<<LiteralFloat(7)>>)),
            Let("g", Symbol("k")),
            Op2("+", LiteralFloat(1), CallF(Symbol("g"), <<>>))>>),
    Block(<<Fun("k", <<>>, Block(<<Let("x", LiteralFloat(1))>>)),
            CallF(Symbol("k"), <<>>),
            LiteralFloat(3)>>) }

\* first-class calls with arguments (tests.rs, test_first_class_function):
\* f subtracts, k adds one; g holds f and m holds k.  Each case has the
\* values of the outer call's arguments in source order and the program's
\* value.
FirstClassBody(call) ==
  Block(<<Fun("f", <<"a", "b">>, Block(<<Op2("-", Symbol("a"), Symbol("b"))>>)),
          Fun("k", <<"a">>, Block(<<Op2("+", Symbol("a"), LiteralFloat(1))>>)),
          Let("g", Symbol("f")),
          Let("m", Symbol("k")),
          call>>)

FirstClassCases ==
  { \* g(5, 2)
    [code |-> FirstClassBody(CallF(Symbol("g"), <<LiteralFloat(5), LiteralFloat(2)>>)),
     args |-> <<VFloat(5), VFloat(2)>>, expected |-> VFloat(3)],
    \* g(5, { let h = 3; h })
    [code |-> FirstClassBody(CallF(Symbol("g"),
                <<LiteralFloat(5), Block(<<Let("h", LiteralFloat(3)), Symbol("h")>>)>>)),
     args |-> <<VFloat(5), VFloat(3)>>, expected |-> VFloat(2)],
    \* g(m(4), { let h = 3; h })
    [code |-> FirstClassBody(CallF(Symbol("g"),
                <<CallF(Symbol("m"), <<LiteralFloat(4)>>),
                  Block(<<Let("h", LiteralFloat(3)), Symbol("h")>>)>>)),
     args |-> <<VFloat(5), VFloat(3)>>, expected |-> VFloat(2)],
    \* g({ let h = 3; h }, m({ let z = 4; z }))
    [code |-> FirstClassBody(CallF(Symbol("g"),
                <<Block(<<Let("h", LiteralFloat(3)), Symbol("h")>>),
                  CallF(Symbol("m"),
                        <<Block(<<Let("z", LiteralFloat(4)), Symbol("z")>>)>>)>>)),
     args |-> <<VFloat(3), VFloat(5)>>, expected |-> VFloat(-2)],
    \* g(g(9, 1), m(m(0)))
    [code |-> FirstClassBody(CallF(Symbol("g"),
                <<CallF(Symbol("g"), <<LiteralFloat(9), LiteralFloat(1)>>),
                  CallF(Symbol("m"), <<CallF(Symbol("m"), <<LiteralFloat(0)>>)>>)>>)),
     args |-> <<VFloat(8), VFloat(2)>>, expected |-> VFloat(6)] }

FirstClassArgPrograms == { x.code : x \in FirstClassCases }

StructDef(name, fields) ==
  Tree("struct_define",
       <<Symbol(name)>> \o [i \in 1..(2 * Len(fields)) |->
          IF i % 2 = 1 THEN Symbol(fields[(i + 1) \div 2]) ELSE Symbol("float")])
StructNew(name, field, e) == Tree("struct_instantiate", <<Symbol(name), Symbol(field), e>>)
Field(e, field) == Tree(".", <<Symbol("."), e, Symbol(field)>>)
FieldTarget(e, field) == Tree(".", <<e, Symbol(field)>>)

\* struct instantiations (tests.rs, test_struct): a definition of v, then
\* v(n1: 1, n2: 2, ...) either as the program's value or as a statement
\* before the literal 0
MaxFields == 3

StructNewFields(name, names) ==
  Tree("struct_instantiate",
       <<Symbol(name)>> \o [i \in 1..(2 * Len(names)) |->
          IF i % 2 = 1 THEN Symbol(names[(i + 1) \div 2]) ELSE LiteralFloat(i \div 2)])

StructCases ==
  { [code |-> Block(<<StructDef("v", fields), StructNewFields("v", provided)>>
                    \o (IF used THEN <<>> ELSE <<LiteralFloat(0)>>)),
     fields |-> fields, provided |-> provided, used |-> used] :
      fields \in {<<"x", "y">>, <<"x", "x">>},
      provided \in UNION { [1..n -> {"x", "y", "z"}] : n \in 0..MaxFields },
      used \in BOOLEAN }

StructPrograms == { x.code : x \in StructCases }

\* sequences of function definitions, the i-th returning i, followed by a
\* call of the function defined last
MaxDefs == 3

DefinitionCases ==
  { [code |-> Block([i \in 1..Len(names) |->
                       Fun(names[i], <<"a">>, Block(<<LiteralFloat(i)>>))]
                    \o <<CallF(Symbol(names[Len(names)]), <<LiteralFloat(0)>>)>>),
     names |-> names] :
      names \in UNION { [1..n -> {"f", "g"}] : n \in 1..MaxDefs } }

DefinitionPrograms == { x.code : x \in DefinitionCases }

\* programs in which one container is reached through two handles, or a
\* number or boolean is copied and its source then overwritten; each with
\* the value the program has when handles are shared and primitives copied
AliasCases ==
  { \* let a = [1, 2]; let b = a; b[0] = 5; a[0]
    [code |-> Block(<<Let("a", ArrayLit(<<LiteralFloat(1), LiteralFloat(2)>>)),
                      Let("b", Symbol("a")),
                      Assign(Index(Symbol("b"), LiteralFloat(0)), LiteralFloat(5)),
                      Index(Symbol("a"), LiteralFloat(0))>>),
     expected |-> VFloat(5)],
    \* let a = [[1], 2]; let b = a[0]; b[0] = 7; a[0][0]
    [code |-> Block(<<Let("a", ArrayLit(<<ArrayLit(<<LiteralFloat(1)>>), LiteralFloat(2)>>)),
                      Let("b", Index(Symbol("a"), LiteralFloat(0))),
                      Assign(Index(Symbol("b"), LiteralFloat(0)), LiteralFloat(7)),
                      Index(Index(Symbol("a"), LiteralFloat(0)), LiteralFloat(0))>>),
     expected |-> VFloat(7)],
    \* struct s { x : float }; let p = s(x: 1); let q = p; q.x = 9; p.x
    [code |-> Block(<<StructDef("s", <<"x">>),
                      Let("p", StructNew("s", "x", LiteralFloat(1))),
                      Let("q", Symbol("p")),
                      Assign(FieldTarget(Symbol("q"), "x"), LiteralFloat(9)),
                      Field(Symbol("p"), "x")>>),
     expected |-> VFloat(9)],
    \* struct s { x : float }; let p = s(x: [1]); let q = p.x; q[0] = 3; p.x[0]
    [code |-> Block(<<StructDef("s", <<"x">>),
                      Let("p", StructNew("s", "x", ArrayLit(<<LiteralFloat(1)>>))),
                      Let("q", Field(Symbol("p"), "x")),
                      Assign(Index(Symbol("q"), LiteralFloat(0)), LiteralFloat(3)),
                      Index(Field(Symbol("p"), "x"), LiteralFloat(0))>>),
     expected |-> VFloat(3)],
    \* struct s { x : float }; let p = s(x: 1); let a = [p]; p.x = 4; a[0].x
    [code |-> Block(<<StructDef("s", <<"x">>),
                      Let("p", StructNew("s", "x", LiteralFloat(1))),
                      Let("a", ArrayLit(<<Symbol("p")>>)),
                      Assign(FieldTarget(Symbol("p"), "x"), LiteralFloat(4)),
                      Field(Index(Symbol("a"), LiteralFloat(0)), "x")>>),
     expected |-> VFloat(4)],
    \* let x = 1; let y = x; x = 5; y
    [code |-> Block(<<Let("x", LiteralFloat(1)), Let("y", Symbol("x")),
                      Assign(Symbol("x"), LiteralFloat(5)), Symbol("y")>>),
     expected |-> VFloat(1)],
    \* let a = [true]; let x = a[0]; a[0] = false; x
    [code |-> Block(<<Let("a", ArrayLit(<<LiteralBool(TRUE)>>)),
                      Let("x", Index(Symbol("a"), LiteralFloat(0))),
                      Assign(Index(Symbol("a"), LiteralFloat(0)), LiteralBool(FALSE)),
                      Symbol("x")>>),
     expected |-> VBool(TRUE)],
    \* struct s { x : float }; let p = s(x: 1); let x = p.x; p.x = 2; x
    [code |-> Block(<<StructDef("s", <<"x">>),
                      Let("p", StructNew("s", "x", LiteralFloat(1))),
                      Let("x", Field(Symbol("p"), "x")),
                      Assign(FieldTarget(Symbol("p"), "x"), LiteralFloat(2)),
                      Symbol("x")>>),
     expected |-> VFloat(1)] }

\* test_scope in general:
\*   let a = 4; let b = 0; { [let a = 5;] [a = 7;] b = b + a }; a * 10 + b
\* the inner block being a bare block or the body of `if true`, at the top
\* level or in the body of a function with the parameter a
ScopeBody(shadow, write, wrap) ==
  LET inner == Block((IF shadow THEN <<Let("a", LiteralFloat(5))>> ELSE <<>>)
                     \o (IF write THEN <<Assign(Symbol("a"), LiteralFloat(7))>> ELSE <<>>)
                     \o <<Assign(Symbol("b"), Op2("+", Symbol("b"), Symbol("a")))>>)
  IN <<Let("b", LiteralFloat(0)),
       IF wrap = "if" THEN If(LiteralBool(TRUE), inner) ELSE inner,
       Op2("+", Op2("*", Symbol("a"), LiteralFloat(10)), Symbol("b"))>>

ScopeExpected(shadow, write) ==
  LET inner_a == IF write THEN 7 ELSE IF shadow THEN 5 ELSE 4
      outer_a == IF write /\ ~shadow THEN 7 ELSE 4
  IN VFloat(outer_a * 10 + inner_a)

ScopeCases ==
  { [code |-> Block(<<Let("a", LiteralFloat(4))>> \o ScopeBody(shadow, write, wrap)),
     shadow |-> shadow,
     expected |-> ScopeExpected(shadow, write)] :
      shadow \in BOOLEAN, write \in BOOLEAN, wrap \in {"if", "block"} }
  \cup
  { [code |-> Block(<<Fun("f", <<"a">>, Block(ScopeBody(shadow, write, wrap))),
                      Let("z", LiteralFloat(0)),
                      CallF(Symbol("f"), <<LiteralFloat(4)>>)>>),
     shadow |-> shadow,
     expected |-> ScopeExpected(shadow, write)] :
      shadow \in BOOLEAN, write \in BOOLEAN, wrap \in {"if", "block"} }

ScopePrograms == { x.code : x \in ScopeCases }

\* loops whose result counts the evaluations of the condition and the
\* iterations of each loop, and programs with a `break` outside every loop
\* of its function; status is the state the pipeline ends in
WhileCases ==
  \* let x = 0; let n = 0; while { n = n + 1; x < k } { x = x + 1 }; x * 10 + n
  { [code |-> Block(<<Let("x", LiteralFloat(0)), Let("n", LiteralFloat(0)),
                      While(Block(<<Assign(Symbol("n"), Op2("+", Symbol("n"), LiteralFloat(1))),
                                    Op2("<", Symbol("x"), LiteralFloat(k))>>),
                            Block(<<Assign(Symbol("x"), Op2("+", Symbol("x"), LiteralFloat(1)))>>)),
                      Op2("+", Op2("*", Symbol("x"), LiteralFloat(10)), Symbol("n"))>>),
     nested |-> FALSE, status |-> "done", expected |-> VFloat(k * 10 + k + 1)] :
      k \in 0..MaxIter }
  \cup
  \* let x = 0; let y = 0
  \* while x < k { while true { y = y + 1; break; y = y + 5 }; x = x + 1 }
  \* x * 10 + y
  { [code |-> Block(<<Let("x", LiteralFloat(0)), Let("y", LiteralFloat(0)),
                      While(Op2("<", Symbol("x"), LiteralFloat(k)),
                            Block(<<While(LiteralBool(TRUE),
                                      Block(<<Assign(Symbol("y"), Op2("+", Symbol("y"), LiteralFloat(1))),
                                              Symbol("break"),
                                              Assign(Symbol("y"), Op2("+", Symbol("y"), LiteralFloat(5)))>>)),
                                    Assign(Symbol("x"), Op2("+", Symbol("x"), LiteralFloat(1)))>>)),
                      Op2("+", Op2("*", Symbol("x"), LiteralFloat(10)), Symbol("y"))>>),
     nested |-> TRUE, status |-> "done", expected |-> VFloat(k * 10 + k)] :
      k \in 1..MaxIter }
  \cup
  \* let x = 0; while true { while false { break }; x = x + 1; if x >= k { break } }; x
  { [code |-> Block(<<Let("x", LiteralFloat(0)),
                      While(LiteralBool(TRUE),
                            Block(<<While(LiteralBool(FALSE), Block(<<Symbol("break")>>)),
                                    Assign(Symbol("x"), Op2("+", Symbol("x"), LiteralFloat(1))),
                                    If(Op2(">=", Symbol("x"), LiteralFloat(k)),
                                       Block(<<Symbol("break")>>))>>)),
                      Symbol("x")>>),
     nested |-> TRUE, status |-> "done", expected |-> VFloat(k)] :
      k \in 1..MaxIter }
  \cup
  \* let x = 0; while x < 1 { x = x + 1 }; break; x
  { [code |-> Block(<<Let("x", LiteralFloat(0)),
                      While(Op2("<", Symbol("x"), LiteralFloat(1)),
                            Block(<<Assign(Symbol("x"), Op2("+", Symbol("x"), LiteralFloat(1)))>>)),
                      Symbol("break"),
                      Symbol("x")>>),
     nested |-> FALSE, status |-> "compile_error", expected |-> VUnit],
    \* while true { fun g(a) { break }; break }; 1
    [code |-> Block(<<While(LiteralBool(TRUE),
                            Block(<<Fun("g", <<"a">>, Block(<<Symbol("break")>>)),
                                    Symbol("break")>>)),
                      LiteralFloat(1)>>),
     nested |-> FALSE, status |-> "compile_error", expected |-> VUnit],
    \* break
    [code |-> Block(<<Symbol("break")>>),
     nested |-> FALSE, status |-> "compile_error", expected |-> VUnit] }

WhilePrograms == { x.code : x \in WhileCases }

AliasPrograms == { x.code : x \in AliasCases }

\* let a = [1, 2]; a[i]   and   let a = [1, 2]; a[i] = 9; a[0] + a[1]
\* for an index i from -1 to 3, the negative one written 0 - 1
IndexExprs ==
  { LiteralFloat(i) : i \in 0..3 } \cup { Op2("-", LiteralFloat(0), LiteralFloat(1)) }

IndexPrograms ==
  { Block(<<Let("a", ArrayLit(<<LiteralFloat(1), LiteralFloat(2)>>)),
            Index(Symbol("a"), i)>>) : i \in IndexExprs }
  \cup
  { Block(<<Let("a", ArrayLit(<<LiteralFloat(1), LiteralFloat(2)>>)),
            Assign(Index(Symbol("a"), i), LiteralFloat(9)),
            Op2("+", Index(Symbol("a"), LiteralFloat(0)),
                     Index(Symbol("a"), LiteralFloat(1)))>>) : i \in IndexExprs }

Programs ==
  TestPrograms \cup ShortCircuitPrograms \cup CallPrograms \cup LoopPrograms
  \cup IfPrograms \cup FirstClassPrograms \cup AliasPrograms \cup IndexPrograms
  \cup ScopePrograms \cup WhilePrograms \cup FirstClassArgPrograms
  \cup StructPrograms \cup DefinitionPrograms

\* ------------------------------------------------------------------------
\* The unit manager (src/compiler/src/compiler.rs)
\*
\* A unit id is a positive integer, 0 stands for None.  A polymorphic
\* function is identified by the unit that defines it (one per unit), a
\* concrete signature by a member of InstanceTypes.  The results of the
\* parser, the structure pass, the type checker, the backend and the
\* top-level run are inputs chosen by the environment.
\* ------------------------------------------------------------------------
MaxGen == 8
MaxImports == 1
MaxRefs == 1

InstanceTypes == {"i64", "f64"}

Range(s) == { s[i] : i \in DOMAIN s }

Without(f, x) == [k \in DOMAIN f \ {x} |-> f[k]]

\* UIDGenerator::next: the ids handed out are 1, 2, 3, ...
gen_next(st) == [st EXCEPT !.gen = @ + 1]

\* CodeStore::create_unit
create_unit(st, uid) == [st EXCEPT !.units = @ \cup {uid}]

\* CodeStore::add_import
add_import(st, unit_id, import) ==
  [st EXCEPT !.imports = @ \cup {<<unit_id, import>>}]

\* CodeStore::get_imports
get_imports(st, uid) == { e[2] : e \in { x \in st.imports : x[1] = uid } }

\* CodeStore::get_importers
get_importers(st, uid) == { e[1] : e \in { x \in st.imports : x[2] = uid } }

\* CodeStore::poly_instance: the unit of the registered instance, 0 for None
poly_instance(st, poly_symbol_id, instance_type) ==
  IF <<poly_symbol_id, instance_type>> \in DOMAIN st.poly_instances
    THEN st.poly_instances[<<poly_symbol_id, instance_type>>]
    ELSE 0

\* CodeStore::remove_unit: the unit and everything stored under its id go.
\* Whether the instance table, which is keyed by polymorphic function,
\* forgets the instances that live in the unit is fixed per store by
\* st.purge; both behaviours are explored.
remove_unit(st, uid) ==
  [st EXCEPT
     !.units = @ \ {uid},
     !.imports = { e \in @ : e[1] # uid /\ e[2] # uid },
     !.polys = @ \ {uid},
     !.type_mappings = Without(@, uid),
     !.poly_parents = Without(@, uid),
     !.codegen_mapping = Without(@, uid),
     !.vals = @ \ {uid},
     !.poly_instances =
        IF st.purge
          THEN [k \in { x \in DOMAIN @ : @[x] # uid /\ x[1] # uid } |-> @[k]]
          ELSE @]

\* Compiler::new: the store holds the intrinsics unit only
Compiler_new(purge) ==
  [gen |-> 1, intrinsics |-> 1, units |-> {1}, imports |-> {},
   polys |-> {}, type_mappings |-> (1 :> {}), poly_instances |-> EmptyMap,
   poly_parents |-> EmptyMap, codegen_mapping |-> EmptyMap, vals |-> {},
   purge |-> purge]

\* imports.sort_unstable(); imports.dedup()
RECURSIVE sort_dedup_set(_)
sort_dedup_set(S) ==
  IF S = {} THEN <<>>
  ELSE LET m == CHOOSE x \in S : \A y \in S : x <= y
       IN <<m>> \o sort_dedup_set(S \ {m})

sort_dedup(imports) == sort_dedup_set(Range(imports))

RECURSIVE add_imports(_, _, _)
add_imports(st, unit_id, imports) ==
  IF imports = <<>> THEN st
  ELSE add_imports(add_import(st, unit_id, Head(imports)), unit_id, Tail(imports))

\* types::typecheck_module, when it succeeds: the unit now has its symbols
\* (with or without a polymorphic function) and its type mapping
typecheck_module(st, unit_id, poly, refs) ==
  [st EXCEPT !.polys = IF poly THEN @ \cup {unit_id} ELSE @,
             !.type_mappings = (unit_id :> refs) @@ @]

\* the polymorphic references inference can record for a unit: at most
\* MaxRefs functions defined in the unit or in a unit it imports, each at any
\* of the concrete signatures
PolymorphicReferences(polys, visible) ==
  { R \in SUBSET ((polys \cap visible) \X InstanceTypes) :
      Cardinality({ r[1] : r \in R }) <= MaxRefs }

\* the import lists a caller can pass: ids of units earlier loads returned
ImportLists(st) ==
  UNION { [1..n -> st.vals] : n \in 0..MaxImports }

LoadIdle ==
  [phase |-> "idle", unit_id |-> 0, imports |-> <<>>,
   new_units |-> <<>>, search_queue |-> <<>>, psid |-> 0, pending |-> <<>>,
   ordering |-> <<>>, result |-> "none"]

HistoryInit == [registered |-> {}, found |-> <<>>, groups |-> <<>>]

\* the orders in which a collection can be iterated
Orders(S) ==
  { f \in [1..Cardinality(S) -> S] :
      \A i, j \in 1..Cardinality(S) : i # j => f[i] # f[j] }

\* the new instance unit's dependencies (instance types are primitive:
\* units_referenced() is empty)
instance_dependencies_defining_unit(st, poly_symbol_id) == {poly_symbol_id}

instance_dependencies(st, poly_symbol_id) ==
  get_imports(st, poly_symbol_id) \cup {poly_symbol_id}

RECURSIVE add_import_set(_, _, _)
add_import_set(st, unit_id, S) ==
  IF S = {} THEN st
  ELSE LET d == CHOOSE x \in S : TRUE
       IN add_import_set(add_import(st, unit_id, d), unit_id, S \ {d})

\* create the unit of a new instance and give it its imports
create_instance_unit(st, poly_symbol_id) ==
  add_import_set(create_unit(gen_next(st), st.gen + 1), st.gen + 1,
                 instance_dependencies(st, poly_symbol_id))

\* register the type-checked instance and make the referring unit import it
register_instance(st, psid, poly_symbol_id, instance_type, instance_unit_id, refs) ==
  add_import(
    [st EXCEPT
       !.type_mappings = (instance_unit_id :> refs) @@ @,
       !.poly_instances = (<<poly_symbol_id, instance_type>> :> instance_unit_id) @@ @,
       !.poly_parents = (instance_unit_id :> poly_symbol_id) @@ @],
    psid, instance_unit_id)

\* codegen: the dependency graph over the positions of new_units
unit_graph_importers(st, new_units) ==
  [i \in DOMAIN new_units |->
     { w \in DOMAIN new_units : new_units[w] \in get_importers(st, new_units[i]) }]

unit_graph(st, new_units) ==
  [i \in DOMAIN new_units |->
     { w \in DOMAIN new_units : new_units[w] \in get_imports(st, new_units[i]) }]

RECURSIVE Reach(_, _)
Reach(g, S) ==
  IF (S \cup UNION { g[v] : v \in S }) = S THEN S
  ELSE Reach(g, S \cup UNION { g[v] : v \in S })

component_of(g, v) ==
  { w \in DOMAIN g : w \in Reach(g, {v}) /\ v \in Reach(g, {w}) }

\* graph::get_strongly_connected_components: the components, each once
get_strongly_connected_components(g) ==
  LET first == sort_dedup_set({ v \in DOMAIN g : \A w \in component_of(g, v) : v <= w })
  IN [k \in DOMAIN first |-> component_of(g, first[k])]

\* graph::graph_of_disjoint_subgraphs: an edge between two components for
\* every edge between their vertices
graph_of_disjoint_subgraphs(components, g) ==
  [ci \in DOMAIN components |->
     { cj \in DOMAIN components \ {ci} :
         \E v \in components[ci] : g[v] \cap components[cj] # {} }]

\* graph::valid_topological_ordering: the orderings it can return, every
\* vertex after the vertices its edges point to; `ordering` is the part
\* already laid out
RECURSIVE valid_topological_ordering(_, _)
valid_topological_ordering(cg, ordering) ==
  IF Len(ordering) = Len(cg) THEN {ordering}
  ELSE UNION { valid_topological_ordering(cg, Append(ordering, v)) :
                 v \in { x \in DOMAIN cg \ Range(ordering) : cg[x] \subseteq Range(ordering) } }

\* the unit groups in the order codegen hands them to the backend
unit_groups(new_units, components, ordering) ==
  [k \in DOMAIN ordering |-> { new_units[i] : i \in components[ordering[k]] }]

codegen_orderings(st, new_units) ==
  { unit_groups(new_units, get_strongly_connected_components(unit_graph(st, new_units)), o) :
      o \in valid_topological_ordering(
              graph_of_disjoint_subgraphs(
                get_strongly_connected_components(unit_graph(st, new_units)),
                unit_graph(st, new_units)), <<>>) }

RECURSIVE remove_units(_, _)
remove_units(st, uids) ==
  IF uids = <<>> THEN st
  ELSE remove_units(remove_unit(st, Head(uids)), Tail(uids))


\* ------------------------------------------------------------------------
\* The constraint solver (src/compiler/src/inference.rs)
\*
\* A type symbol is a positive integer.  The solved constraint kinds are
\* Assert, Equalivalent, FunctionDef, FunctionCall of a named function,
\* Convert, Index and Array; the function table holds the non-generic
\* intrinsics of base_module for the primitive types I64, I32 and F64.
\* ------------------------------------------------------------------------
MaxConstraints == 3
MaxSymbols == 3

\* types.rs: Type
Type_Prim(p) == [k |-> "Prim", p |-> p, of |-> <<>>]
Type_Ptr(t) == [k |-> "Ptr", p |-> "", of |-> <<t>>]
Type_Array(t) == [k |-> "Array", p |-> "", of |-> <<t>>]
Type_Def(name) == [k |-> "Def", p |-> name, of |-> <<>>]
\* Type::Fun of a signature: the return type, then the argument types
Type_Fun(return_type, args) == [k |-> "Fun", p |-> "", of |-> <<return_type>> \o args]
NoType == [k |-> "None", p |-> "", of |-> <<>>]

float(t) == t.k = "Prim" /\ t.p \in {"F32", "F64"}
unsigned_int(t) == t.k = "Prim" /\ t.p \in {"U64", "U32", "U16", "U8"}
signed_int(t) == t.k = "Prim" /\ t.p \in {"I64", "I32"}
int(t) == signed_int(t) \/ unsigned_int(t)
number(t) == int(t) \/ float(t)
pointer(t) == t.k \in {"Ptr", "Fun"}

\* inference.rs: TypeConstraint
Concrete(t) == [c |-> "Concrete", class |-> "", t |-> t]
Class(cl) == [c |-> "Class", class |-> cl, t |-> NoType]
NoConstraint == [c |-> "None", class |-> "", t |-> NoType]

contains_type(cl, t) == IF cl = "Float" THEN float(t) ELSE int(t)

default_type(tc) ==
  IF tc.c = "Concrete" THEN tc.t
  ELSE IF tc.class = "Float" THEN Type_Prim("F64") ELSE Type_Prim("I64")

\* inference.rs: Constraint
Constraint(kind, name, args, result_ts, tc) ==
  [kind |-> kind, name |-> name, args |-> args, result |-> result_ts, tc |-> tc,
   fields |-> <<>>, global_type |-> ""]
Constraint_Assert(ts, tc) == Constraint("Assert", "", <<ts>>, 0, tc)
Constraint_Equalivalent(a, b) == Constraint("Equalivalent", "", <<a, b>>, 0, NoConstraint)
Constraint_Array(array, element) == Constraint("Array", "", <<array, element>>, 0, NoConstraint)
Constraint_Convert(val, into_type) == Constraint("Convert", "", <<val>>, 0, Concrete(into_type))
Constraint_FunctionDef(name, return_type, args) ==
  Constraint("FunctionDef", name, args, return_type, NoConstraint)
Constraint_FunctionCall(name, args, result_ts) ==
  Constraint("FunctionCall", name, args, result_ts, NoConstraint)
Constraint_Index(container, index, result_ts) ==
  Constraint("Index", "", <<container, index>>, result_ts, NoConstraint)

\* Constructor: fields[i] is the field name given for args[i], "" for None
Constraint_Constructor(type_name, fields, args, result_ts) ==
  [Constraint("Constructor", type_name, args, result_ts, NoConstraint)
     EXCEPT !.fields = fields]
Constraint_GlobalDef(name, type_symbol, global_type) ==
  [Constraint("GlobalDef", name, <<type_symbol>>, 0, NoConstraint)
     EXCEPT !.global_type = global_type]
Constraint_GlobalReference(name, result_ts) ==
  Constraint("GlobalReference", name, <<>>, result_ts, NoConstraint)
Constraint_FieldAccess(container, field, result_ts) ==
  Constraint("FieldAccess", field, <<container>>, result_ts, NoConstraint)

\* types.rs: TypeDefinition (kind, fields as <<name, type>> pairs) and
\* GlobalDefinition; own is module_id = t.id
TypeDefinition(kind, fields) == [kind |-> kind, fields |-> fields]
GlobalDefinition(name, own, global_type, type_tag) ==
  [name |-> name, own |-> own, global_type |-> global_type, type_tag |-> type_tag]

\* types.rs: FunctionDefinition (name_in_code, signature, generics)
FunctionDefinition(name, args, return_type) ==
  [name_in_code |-> name, args |-> args, return_type |-> return_type, generics |-> <<>>]

\* base_module: the intrinsics of one primitive number type
add_intrinsics(t) ==
  <<FunctionDefinition("-", <<t>>, t),
    FunctionDefinition("+", <<t, t>>, t),
    FunctionDefinition("==", <<t, t>>, Type_Prim("Bool"))>>

base_module ==
  add_intrinsics(Type_Prim("I64")) \o add_intrinsics(Type_Prim("I32"))
  \o add_intrinsics(Type_Prim("F64"))

\* TypeInfo::find_function among the non-generic definitions: the index of
\* the definition found, 0 for None
find_function(functions, name, args) ==
  IF \E i \in DOMAIN functions :
       functions[i].generics = <<>> /\ functions[i].name_in_code = name
       /\ functions[i].args = args
    THEN CHOOSE i \in DOMAIN functions :
           functions[i].generics = <<>> /\ functions[i].name_in_code = name
           /\ functions[i].args = args
    ELSE 0

\* Inference::new
Inference_new(constraints) ==
  [constraints |-> constraints,
   symbols |-> UNION { (Range(constraints[i].args) \cup {constraints[i].result}) \ {0}
                         : i \in DOMAIN constraints },
   functions |-> base_module,
   globals |-> <<>>,
   type_defs |-> EmptyMap,
   resolved |-> EmptyMap,
   errors |-> <<>>,
   function_references |-> 0,
   global_references |-> {},
   unused_constraints |-> <<>>,
   retained |-> <<>>,
   total_passes |-> 0,
   remaining_before_pass |-> 0,
   pos |-> 1,
   used |-> FALSE,
   defaults_read |-> {},
   phase |-> "first"]

\* Inference::get_type
get_type(s, ts) ==
  IF ts \in DOMAIN s.resolved THEN default_type(s.resolved[ts]) ELSE NoType

\* get_type was asked for a symbol that is resolved to a class only, and
\* answered with the default of the class: remember which constraint kind
\* asked
read_type(s, kind, ts) ==
  IF ts \in DOMAIN s.resolved /\ s.resolved[ts].c = "Class"
    THEN [s EXCEPT !.defaults_read = @ \cup {kind}]
    ELSE s

RECURSIVE read_types(_, _, _)
read_types(s, kind, tss) ==
  IF tss = <<>> THEN s
  ELSE read_types(read_type(s, kind, Head(tss)), kind, Tail(tss))

\* Inference::unify
unify(a, b) ==
  IF a.c = "Concrete" /\ b.c = "Concrete" THEN (IF a.t = b.t THEN a ELSE NoConstraint)
  ELSE IF a.c = "Class" /\ b.c = "Concrete"
    THEN (IF contains_type(a.class, b.t) THEN Concrete(b.t) ELSE NoConstraint)
  ELSE IF a.c = "Concrete" /\ b.c = "Class"
    THEN (IF contains_type(b.class, a.t) THEN Concrete(a.t) ELSE NoConstraint)
  ELSE (IF a.class = b.class THEN a ELSE NoConstraint)

push_error(s, e) == [s EXCEPT !.errors = Append(@, e)]

\* Inference::set_type_constraint
set_type_constraint(s, ts, tc) ==
  IF ts \in DOMAIN s.resolved
    THEN IF unify(s.resolved[ts], tc) # NoConstraint
           THEN [s EXCEPT !.resolved[ts] = unify(s.resolved[ts], tc)]
           ELSE push_error(s, "conflicting types inferred")
    ELSE [s EXCEPT !.resolved = (ts :> tc) @@ @]

\* Inference::set_type
set_type(s, ts, t) == set_type_constraint(s, ts, Concrete(t))

Used(s) == [s EXCEPT !.used = TRUE]
Unused(s) == [s EXCEPT !.used = FALSE]

arg_types(s, args) == [i \in DOMAIN args |-> get_type(s, args[i])]

all_resolved(s, args) == \A i \in DOMAIN args : get_type(s, args[i]) # NoType

\* process_constraint, Constraint::Equalivalent
process_equalivalent(s, a, b) ==
  IF get_type(s, a) # NoType
    THEN Used(set_type(read_type(s, "Equalivalent", a), b, get_type(s, a)))
  ELSE IF get_type(s, b) # NoType
    THEN Used(set_type(read_type(s, "Equalivalent", b), a, get_type(s, b)))
  ELSE Unused(s)

\* process_constraint, Constraint::FunctionDef
process_function_def(s, name, return_type, args) ==
  IF all_resolved(s, args) /\ get_type(s, return_type) # NoType
    THEN IF find_function(s.functions, name, arg_types(s, args)) # 0
           THEN Unused(push_error(s, "function with that name and signature already defined"))
           ELSE Used([s EXCEPT !.functions =
                        Append(@, FunctionDefinition(name, arg_types(s, args),
                                                     get_type(s, return_type)))])
    ELSE Unused(s)

\* process_constraint, Constraint::FunctionCall with Function::Name
process_function_call(s, name, args, result_ts) ==
  IF all_resolved(s, args)
    THEN IF find_function(s.functions, name, arg_types(s, args)) # 0
           THEN Used(set_type(
                  [read_types(s, "FunctionCall", args)
                     EXCEPT !.function_references = @ + 1],
                  result_ts,
                  s.functions[find_function(s.functions, name, arg_types(s, args))].return_type))
           ELSE Unused(read_types(s, "FunctionCall", args))
    ELSE Unused(read_types(s, "FunctionCall", args))

\* process_constraint, Constraint::Convert
process_convert(s, val, into_type) ==
  IF get_type(s, val) # NoType
    THEN IF \/ pointer(get_type(s, val)) /\ pointer(into_type)
            \/ number(get_type(s, val)) /\ number(into_type)
            \/ pointer(get_type(s, val)) /\ unsigned_int(into_type)
            \/ unsigned_int(get_type(s, val)) /\ pointer(into_type)
           THEN Used(read_type(s, "Convert", val))
           ELSE Used(push_error(read_type(s, "Convert", val), "type conversion not supported"))
    ELSE Unused(s)

\* process_constraint, Constraint::Index
process_index(s, container, index, result_ts) ==
  IF get_type(s, container) # NoType /\ get_type(s, index) # NoType
    THEN IF int(get_type(s, index)) /\ get_type(s, container).k = "Ptr"
           THEN Used(set_type(read_types(s, "Index", <<container, index>>), result_ts,
                              get_type(s, container).of[1]))
         ELSE IF find_function(s.functions, "Index",
                               <<get_type(s, container), get_type(s, index)>>) # 0
           THEN Used(set_type(
                  [read_types(s, "Index", <<container, index>>)
                     EXCEPT !.function_references = @ + 1],
                  result_ts,
                  s.functions[find_function(s.functions, "Index",
                     <<get_type(s, container), get_type(s, index)>>)].return_type))
         ELSE Unused(read_types(s, "Index", <<container, index>>))
    ELSE Unused(read_types(s, "Index", <<container, index>>))

\* process_constraint, Constraint::Array: the second half, after the element
\* may have been set from the array's type
array_from_element(s, array, element) ==
  IF get_type(s, element) # NoType
    THEN set_type(s, array, Type_Array(get_type(s, element)))
    ELSE s

\* process_constraint, Constraint::Array
process_array(s, array, element) ==
  Unused(array_from_element(
    IF get_type(s, array).k = "Array"
      THEN set_type(s, element, get_type(s, array).of[1])
      ELSE s,
    array, element))

\* TypeInfo::find_global: the index of the definition, 0 for None
find_global(globals, name) ==
  IF \E i \in DOMAIN globals : globals[i].name = name
    THEN CHOOSE i \in DOMAIN globals : globals[i].name = name
    ELSE 0

RECURSIVE set_types(_, _, _)
set_types(s, tss, ts) ==
  IF tss = <<>> THEN s
  ELSE set_types(set_type(s, Head(tss), Head(ts)), Tail(tss), Tail(ts))

RECURSIVE push_errors(_, _, _)
push_errors(s, n, e) == IF n = 0 THEN s ELSE push_errors(push_error(s, e), n - 1, e)

\* process_constraint, Constraint::Constructor of a TypeKind::Struct
constructor_struct(s, def, fields, args) ==
  IF Len(fields) = Len(def.fields)
    THEN set_types(
           push_errors(s, Cardinality({ i \in DOMAIN fields :
                            fields[i] # "" /\ fields[i] # def.fields[i][1] }),
                       "incorrect field name"),
           args, [i \in DOMAIN def.fields |-> def.fields[i][2]])
    ELSE push_error(s, "incorrect number of field arguments for struct")

\* process_constraint, Constraint::Constructor of a TypeKind::Union
constructor_union(s, def, fields, args) ==
  IF Len(fields) = 1 /\ fields[1] # ""
    THEN IF \E i \in DOMAIN def.fields : def.fields[i][1] = fields[1]
           THEN set_type(s, args[1],
                  def.fields[CHOOSE i \in DOMAIN def.fields :
                     /\ def.fields[i][1] = fields[1]
                     /\ \A j \in 1..(i - 1) : def.fields[j][1] # fields[1]][2])
           ELSE push_error(s, "field does not exist in this union")
    ELSE push_error(s, "incorrect number of field arguments for union")

\* process_constraint, Constraint::Constructor
process_constructor(s, type_name, fields, args, result_ts) ==
  IF type_name \in DOMAIN s.type_defs
    THEN Used(set_type(
           IF s.type_defs[type_name].kind = "Struct"
             THEN constructor_struct(s, s.type_defs[type_name], fields, args)
             ELSE constructor_union(s, s.type_defs[type_name], fields, args),
           result_ts, Type_Def(type_name)))
    ELSE Unused(s)

\* process_constraint, Constraint::GlobalDef
process_global_def(s, name, type_symbol, global_type) ==
  IF get_type(s, type_symbol) = NoType THEN Unused(s)
  ELSE IF get_type(s, type_symbol).k = "Fun"
    THEN IF find_function(s.functions, name, Tail(get_type(s, type_symbol).of)) # 0
           THEN Used(push_error(s, "function with that name and signature already defined"))
           ELSE Used([s EXCEPT !.functions =
                        Append(@, FunctionDefinition(name, Tail(get_type(s, type_symbol).of),
                                                     Head(get_type(s, type_symbol).of)))])
  ELSE IF find_global(s.globals, name) # 0
    THEN Used(push_error(s, "global with that name already defined"))
    ELSE Used([s EXCEPT !.globals =
                 Append(@, GlobalDefinition(name, TRUE, global_type,
                                            get_type(s, type_symbol)))])

\* CodegenInfo::global_references.insert(node, name): the node is named by
\* its type symbol
insert_global_reference(s, result_ts, name) ==
  [s EXCEPT !.global_references = @ \cup {<<result_ts, name>>}]

\* process_constraint, Constraint::GlobalReference: a Repl global of the
\* module being inferred is not in scope of a global reference
process_global_reference_unscoped(s, name, result_ts) ==
  IF find_global(s.globals, name) # 0
    THEN Used(insert_global_reference(
           set_type(s, result_ts, s.globals[find_global(s.globals, name)].type_tag),
           result_ts, name))
  ELSE IF /\ get_type(s, result_ts).k = "Fun"
          /\ find_function(s.functions, name, Tail(get_type(s, result_ts).of)) # 0
    THEN Used([s EXCEPT !.function_references = @ + 1])
    ELSE Unused(s)

process_global_reference(s, name, result_ts) ==
  IF /\ find_global(s.globals, name) # 0
     /\ ~(/\ s.globals[find_global(s.globals, name)].own
          /\ s.globals[find_global(s.globals, name)].global_type = "Repl")
    THEN Used(insert_global_reference(
           set_type(s, result_ts, s.globals[find_global(s.globals, name)].type_tag),
           result_ts, name))
  ELSE IF /\ get_type(s, result_ts).k = "Fun"
          /\ find_function(s.functions, name, Tail(get_type(s, result_ts).of)) # 0
    THEN Used([s EXCEPT !.function_references = @ + 1])
    ELSE Unused(s)

\* process_constraint, Constraint::FieldAccess
process_field_access(s, container, field, result_ts) ==
  IF get_type(s, container) = NoType THEN Unused(s)
  ELSE IF get_type(s, container).k = "Def"
    THEN IF get_type(s, container).p \in DOMAIN s.type_defs
           THEN IF \E i \in DOMAIN s.type_defs[get_type(s, container).p].fields :
                     s.type_defs[get_type(s, container).p].fields[i][1] = field
                  THEN Used(set_type(s, result_ts,
                         s.type_defs[get_type(s, container).p].fields[
                           CHOOSE i \in DOMAIN s.type_defs[get_type(s, container).p].fields :
                             /\ s.type_defs[get_type(s, container).p].fields[i][1] = field
                             /\ \A j \in 1..(i - 1) :
                                  s.type_defs[get_type(s, container).p].fields[j][1] # field][2]))
                  ELSE Used(push_error(s, "type has no field with this name"))
           ELSE Unused(s)
    ELSE Used(push_error(s, "type has no field with this name"))

\* Inference::process_constraint
process_constraint(s, con) ==
  CASE con.kind = "Assert" -> Used(set_type_constraint(s, con.args[1], con.tc))
    [] con.kind = "Equalivalent" -> process_equalivalent(s, con.args[1], con.args[2])
    [] con.kind = "FunctionDef" -> process_function_def(s, con.name, con.result, con.args)
    [] con.kind = "FunctionCall" -> process_function_call(s, con.name, con.args, con.result)
    [] con.kind = "Convert" -> process_convert(s, con.args[1], con.tc.t)
    [] con.kind = "Index" -> process_index(s, con.args[1], con.args[2], con.result)
    [] con.kind = "Array" -> process_array(s, con.args[1], con.args[2])
    [] con.kind = "Constructor" ->
         process_constructor(s, con.name, con.fields, con.args, con.result)
    [] con.kind = "GlobalDef" ->
         process_global_def(s, con.name, con.args[1], con.global_type)
    [] con.kind = "GlobalReference" -> process_global_reference(s, con.name, con.result)
    [] con.kind = "FieldAccess" ->
         process_field_access(s, con.args[1], con.name, con.result)

\* unresolved_constraint_error with no diagnostic for an unresolved call
unresolved_constraint_error_silent_call(s, con) ==
  IF con.kind = "Assert" THEN [s EXCEPT !.phase = "panic"]
  ELSE IF con.kind \in {"Equalivalent", "FunctionCall"} THEN s
  ELSE push_error(s, con.kind \o " not resolved")

\* Inference::unresolved_constraint_error
unresolved_constraint_error(s, con) ==
  IF con.kind = "Assert" THEN [s EXCEPT !.phase = "panic"]
  ELSE IF con.kind = "Equalivalent" THEN s
  ELSE push_error(s, con.kind \o " not resolved")

RECURSIVE unresolved_constraint_errors(_, _)
unresolved_constraint_errors(s, unused) ==
  IF unused = <<>> THEN s
  ELSE unresolved_constraint_errors(
         unresolved_constraint_error(s, s.constraints[Head(unused)]), Tail(unused))

\* infer: the sanity check after the errors for the unused constraints
sanity_check(s) ==
  IF s.phase = "panic" THEN s
  ELSE IF Cardinality(s.symbols) - Cardinality(DOMAIN s.resolved) > 0 /\ s.errors = <<>>
    THEN [s EXCEPT !.phase = "panic"]
    ELSE [s EXCEPT !.phase = "done"]

\* infer: a turn of the first loop has processed constraint number s.pos
first_pass_step(s) ==
  [s EXCEPT !.pos = @ + 1,
            !.unused_constraints = IF s.used THEN @ ELSE Append(@, s.pos)]

\* infer: a turn of retain has processed the unused constraint at s.pos
retain_step(s, con) ==
  [s EXCEPT !.pos = @ + 1,
            !.retained = IF s.used THEN @ ELSE Append(@, con)]

\* infer: the end of a pass of the while loop, which never exits
pass_end_no_exit(s) ==
  [s EXCEPT !.unused_constraints = s.retained, !.phase = "loop"]

\* infer: the end of a pass of the while loop
pass_end(s) ==
  [s EXCEPT !.unused_constraints = s.retained,
            !.phase = IF s.remaining_before_pass = Len(s.retained)
                        THEN "report" ELSE "loop"]

\* the constraints a list is drawn from
TypeSymbols == 1..MaxSymbols

ConstraintUniverse ==
  { Constraint_Assert(ts, tc) :
      ts \in TypeSymbols, tc \in {Class("Integer"), Concrete(Type_Prim("I32"))} }
  \cup { Constraint_Equalivalent(p[1], p[2]) :
           p \in { q \in TypeSymbols \X TypeSymbols : q[1] = q[2] + 1 \/ q[2] = q[1] + 1 } }
  \cup { Constraint_FunctionCall("+", <<1, 2>>, MaxSymbols),
         Constraint_FunctionCall("-", <<1>>, 2),
         Constraint_FunctionDef("-", 2, <<1>>),
         Constraint_Convert(1, Type_Prim("I32")),
         Constraint_Index(1, 2, MaxSymbols),
         Constraint_Array(2, 1) }

ConstraintLists ==
  UNION { [1..n -> ConstraintUniverse] : n \in 0..MaxConstraints }

\* ------------------------------------------------------------------------
\* The constraint gatherer (src/compiler/src/inference.rs, GatherConstraints)
\*
\* A node is its Content variant with its name, children, type tag and
\* argument list; node ids are positions in the tree, so every node gets a
\* fresh type symbol.  A variable is identified by its name (its SymbolId).
\* A type tag is the text of a type expression, "" for none.
\* ------------------------------------------------------------------------
MaxStmts == 2

Node(content, name, kids, tag, args) ==
  [content |-> content, name |-> name, kids |-> kids, tag |-> tag, args |-> args]

\* Type::from_string and GatherConstraints::expr_to_type: the type of a type
\* expression, NoType for an invalid one
expr_to_type(e) ==
  CASE e = "i64" -> Type_Prim("I64")
    [] e = "i32" -> Type_Prim("I32")
    [] e = "f64" -> Type_Prim("F64")
    [] e = "bool" -> Type_Prim("Bool")
    [] e = "fun(i64) i64" -> Type_Fun(Type_Prim("I64"), <<Type_Prim("I64")>>)
    [] e = "fun()" -> Type_Fun(Type_Prim("Void"), <<>>)
    [] e = "(invalid)" -> NoType
    [] OTHER -> Type_Def(e)

\* Constraints::new with the gatherer's type definitions and references
Constraints_new ==
  [gen |-> 0, constraints |-> <<>>, variable_symbols |-> EmptyMap,
   type_defs |-> EmptyMap, type_def_refs |-> <<>>, errors |-> <<>>]

\* GatherConstraints::constraint
constraint(g, con) == [g EXCEPT !.constraints = Append(@, con)]

\* GatherConstraints::type_symbol: the new symbol is g.gen + 1
type_symbol(g) == [g EXCEPT !.gen = @ + 1]

\* GatherConstraints::variable_to_type_symbol
variable_to_type_symbol(g, v) ==
  IF v \in DOMAIN g.variable_symbols THEN g
  ELSE [type_symbol(g) EXCEPT !.variable_symbols = (v :> (g.gen + 1)) @@ @]

\* GatherConstraints::try_expr_to_type followed by assert_type on success
assert_tag(g, ts, e) ==
  IF expr_to_type(e) = NoType
    THEN [g EXCEPT !.errors = Append(@, "invalid type expression")]
    ELSE [constraint(g, Constraint_Assert(ts, Concrete(expr_to_type(e))))
            EXCEPT !.type_def_refs =
              IF expr_to_type(e).k = "Def" THEN Append(@, e) ELSE @]

\* GatherConstraints::tagged_symbol
tagged_symbol(g, ts, type_tag) == IF type_tag = "" THEN g ELSE assert_tag(g, ts, type_tag)

assert_void(g, ts) == constraint(g, Constraint_Assert(ts, Concrete(Type_Prim("Void"))))
assert_bool(g, ts) == constraint(g, Constraint_Assert(ts, Concrete(Type_Prim("Bool"))))

\* Content::FunctionDefinition: the symbols and tags of the arguments
RECURSIVE function_args(_, _)
function_args(g, args) ==
  IF args = <<>> THEN g
  ELSE function_args(
         tagged_symbol(variable_to_type_symbol(g, Head(args)[1]),
                       variable_to_type_symbol(g, Head(args)[1]).variable_symbols[Head(args)[1]],
                       Head(args)[2]),
         Tail(args))

\* Content::TypeDefinition: the fields whose type expression is valid
typed_fields(fields) ==
  SelectSeq([i \in DOMAIN fields |-> <<fields[i][1], expr_to_type(fields[i][2])>>],
            LAMBDA f : f[2] # NoType)

\* process_node: what a node does before its children are processed; ts is
\* the node's own symbol
before_children(g, n, ts) ==
  CASE n.content = "Literal" ->
         constraint(g, Constraint_Assert(ts,
           IF n.name = "Bool" THEN Concrete(Type_Prim("Bool")) ELSE Class(n.name)))
    [] n.content = "VariableInitialise" ->
         IF n.tag \in {"Local", "Repl"}
           THEN variable_to_type_symbol(assert_void(g, ts), n.name)
           ELSE type_symbol(assert_void(g, ts))
    [] n.content \in {"Assignment", "IfThen", "While"} -> assert_void(g, ts)
    [] n.content = "Reference" ->
         IF n.tag = "local"
           THEN constraint(variable_to_type_symbol(g, n.name),
                  Constraint_Equalivalent(ts,
                    variable_to_type_symbol(g, n.name).variable_symbols[n.name]))
           ELSE constraint(g, Constraint_GlobalReference(n.name, ts))
    [] n.content = "FunctionDefinition" -> function_args(assert_void(g, ts), n.args)
    [] n.content = "CBind" ->
         constraint(assert_tag(type_symbol(assert_void(g, ts)), ts + 1, n.tag),
                    Constraint_GlobalDef(n.name, ts + 1, "CBind"))
    [] n.content = "TypeDefinition" ->
         IF n.name \in DOMAIN g.type_defs
           THEN [assert_void(g, ts)
                   EXCEPT !.errors = Append(@, "type with this name already defined")]
           ELSE [assert_void(g, ts)
                   EXCEPT !.type_defs = (n.name :> TypeDefinition(n.tag, typed_fields(n.args))) @@ @]
    [] n.content = "ArrayLiteral" -> type_symbol(g)
    [] OTHER -> g

\* process_node: what a node does after the child with symbol el
after_child(g, n, ts, el) ==
  IF n.content = "ArrayLiteral"
    THEN constraint(g, Constraint_Equalivalent(el, ts + 1))
    ELSE g

\* process_node: what a node does after its children, whose symbols are tss
after_children(g, n, ts, tss) ==
  CASE n.content = "VariableInitialise" ->
         IF n.tag \in {"Local"}
           THEN constraint(g, Constraint_Equalivalent(ts + 1, tss[1]))
           ELSE constraint(constraint(g, Constraint_Equalivalent(ts + 1, tss[1])),
                           Constraint_GlobalDef(n.name, ts + 1, n.tag))
    [] n.content = "Assignment" -> constraint(g, Constraint_Equalivalent(tss[1], tss[2]))
    [] n.content \in {"IfThen", "While"} -> assert_void(assert_bool(g, tss[1]), tss[2])
    [] n.content = "IfThenElse" ->
         constraint(assert_bool(constraint(g, Constraint_Equalivalent(ts, tss[2])), tss[1]),
                    Constraint_Equalivalent(tss[2], tss[3]))
    [] n.content = "Block" ->
         IF tss = <<>> THEN assert_void(g, ts)
         ELSE constraint(g, Constraint_Equalivalent(ts, tss[Len(tss)]))
    [] n.content = "FunctionDefinition" ->
         constraint(tagged_symbol(g, tss[1], n.tag),
                    Constraint_FunctionDef(n.name, tss[1],
                      [i \in DOMAIN n.args |-> g.variable_symbols[n.args[i][1]]]))
    [] n.content = "TypeConstructor" ->
         constraint(g, Constraint_Constructor(n.name, n.args, tss, ts))
    [] n.content = "FieldAccess" ->
         constraint(g, Constraint_FieldAccess(tss[1], n.name, ts))
    [] n.content = "Index" -> constraint(g, Constraint_Index(tss[1], tss[2], ts))
    [] n.content = "ArrayLiteral" -> constraint(g, Constraint_Array(ts, ts + 1))
    [] n.content = "FunctionCall" -> constraint(g, Constraint_FunctionCall(n.name, tss, ts))
    [] n.content = "Convert" ->
         IF expr_to_type(n.tag) = NoType
           THEN [g EXCEPT !.errors = Append(@, "invalid type expression")]
           ELSE constraint(assert_tag(g, ts, n.tag),
                           Constraint_Convert(tss[1], expr_to_type(n.tag)))
    [] OTHER -> g

\* GatherConstraints::process_node: the node's symbol is the next one
RECURSIVE process_node(_, _)
RECURSIVE process_children(_, _, _, _, _)
process_child(r, n, ts, rest, tss) ==
  process_children(after_child(r.g, n, ts, r.ts), n, ts, rest, Append(tss, r.ts))

process_children(g, n, ts, kids, tss) ==
  IF kids = <<>> THEN [g |-> after_children(g, n, ts, tss), ts |-> ts]
  ELSE process_child(process_node(g, Head(kids)), n, ts, Tail(kids), tss)

process_node(g, n) ==
  process_children(before_children(type_symbol(g), n, g.gen + 1), n, g.gen + 1, n.kids, <<>>)

\* GatherConstraints::gather_constraints
RECURSIVE undefined_type_errors(_, _)
undefined_type_errors(g, names) ==
  IF names = <<>> THEN g
  ELSE undefined_type_errors(
         IF Head(names) \in DOMAIN g.type_defs THEN g
         ELSE [g EXCEPT !.errors = Append(@, "No type definition with this name found.")],
         Tail(names))

gather_constraints(root) ==
  undefined_type_errors(process_node(Constraints_new, root).g,
                        process_node(Constraints_new, root).g.type_def_refs)

\* infer_types: the solver on what the gatherer produced
Inference_gathered(g) ==
  [Inference_new(g.constraints)
     EXCEPT !.symbols = 1..g.gen, !.type_defs = g.type_defs, !.errors = g.errors]

infer_types(root) == Inference_gathered(gather_constraints(root))

\* the trees the gatherer is run on: a block of statements in which a local
\* reference names a variable declared by an earlier statement or an
\* argument of the enclosing function
Content_Literal(class) == Node("Literal", class, <<>>, "", <<>>)
Content_Reference(name) == Node("Reference", name, <<>>, "local", <<>>)
Content_GlobalReference(name) == Node("Reference", name, <<>>, "global", <<>>)
Content_FunctionCall(name, args) == Node("FunctionCall", name, args, "", <<>>)
Content_Block(ns) == Node("Block", "", ns, "", <<>>)
Content_TypeConstructor(name, fields, values) ==
  Node("TypeConstructor", name, values, "", fields)

GatherExprs(V) ==
  { Content_Literal("Integer"), Content_Literal("Bool"),
    Content_GlobalReference("g"),
    Content_FunctionCall("-", <<Content_Literal("Integer")>>),
    Content_FunctionCall("h", <<>>),
    Node("ArrayLiteral", "", <<Content_Literal("Integer")>>, "", <<>>),
    Content_TypeConstructor("P", <<"x", "y">>,
                            <<Content_Literal("Integer"), Content_Literal("Integer")>>),
    Content_TypeConstructor("P", <<"y", "x">>,
                            <<Content_Literal("Integer"), Content_Literal("Integer")>>),
    Content_TypeConstructor("P", <<"x", "z">>,
                            <<Content_Literal("Integer"), Content_Literal("Integer")>>) }
  \cup UNION { { Content_Reference(v),
                 Content_FunctionCall("+", <<Content_Reference(v), Content_Literal("Integer")>>),
                 Node("FieldAccess", "x", <<Content_Reference(v)>>, "", <<>>),
                 Node("Index", "", <<Content_Reference(v), Content_Literal("Integer")>>, "", <<>>),
                 Node("Convert", "", <<Content_Reference(v)>>, "i32", <<>>),
                 Node("IfThenElse", "", <<Content_Literal("Bool"), Content_Reference(v),
                                          Content_Literal("Integer")>>, "", <<>>) } : v \in V }

GatherStatements(V) ==
  GatherExprs(V)
  \cup { Node("VariableInitialise", "a", <<e>>, scope, <<>>) :
           e \in (IF "a" \in V THEN {} ELSE GatherExprs(V)), scope \in {"Local", "Repl"} }
  \cup { Node("Assignment", "", <<Content_Reference(v), e>>, "", <<>>) :
           v \in V, e \in {Content_Literal("Integer"), Content_Literal("Bool")} }
  \cup { Node("FunctionDefinition", name, <<body>>, "", <<<<"x", type_tag>>>>) :
           name \in {"f", "-"}, type_tag \in {"", "i64"},
           body \in {Content_Reference("x"),
                     Content_FunctionCall("-", <<Content_Reference("x")>>)} }
  \cup { Node("CBind", name, <<>>, type_tag, <<>>) :
           name \in {"g", "-"}, type_tag \in {"i64", "fun(i64) i64", "(invalid)"} }
  \cup { Node("TypeDefinition", "P", <<>>, "Struct", <<<<"x", "i64">>, <<"y", "i64">>>>),
         Node("While", "", <<Content_Literal("Bool"), Content_Block(<<>>)>>, "", <<>>) }

RECURSIVE GatherPrograms(_, _)
GatherPrograms(n, V) ==
  IF n = 0 THEN {<<>>}
  ELSE {<<>>} \cup UNION { { <<st>> \o rest :
                               rest \in GatherPrograms(n - 1,
                                 IF st.content = "VariableInitialise"
                                   THEN V \cup {st.name} ELSE V) }
                           : st \in GatherStatements(V) }

\* ------------------------------------------------------------------------
\* The legacy type checker (typecheck.rs): the function table of a module
\* and the labels of the typed tree
\* ------------------------------------------------------------------------
MaxExprs == 3

TOP_LEVEL_FUNCTION_NAME == "top_level"

\* typecheck.rs: TypedNode; label is the LabelId of a Label or BreakToLabel,
\* v the value of a Literal; `from` (ghost) tells a BreakToLabel made for
\* `return` from one made for `break`
TypedNode(content, type_tag, kids) ==
  [content |-> content, type_tag |-> type_tag, kids |-> kids,
   label |-> 0, v |-> VUnit, from |-> ""]

NoNode == TypedNode("", NoType, <<>>)

\* typecheck.rs: TypedModule::new
TypedModule_new(id) == [id |-> id, functions |-> <<>>, globals |-> EmptyMap]

\* typecheck.rs: FunctionDefinition (module_id, name_in_code, signature,
\* implementation); body is the typed tree of FunctionImplementation::Normal
TypeChecker_FunctionDefinition(module_id, name, args, return_type, implementation, body) ==
  [module_id |-> module_id, name_in_code |-> name, args |-> args,
   return_type |-> return_type, implementation |-> implementation,
   body |-> body]

\* TypeChecker::new: the module being checked, the imported modules and the
\* uid generator, which has handed out the ids up to gen
TypeChecker_new(module, modules, gen) ==
  [module |-> module, modules |-> modules, gen |-> gen]

\* TypeChecker::iter_modules: the module itself, then the imported modules
TypeChecker_iter_modules(t) == <<t.module>> \o t.modules

RECURSIVE FlatFunctions(_)
FlatFunctions(ms) ==
  IF ms = <<>> THEN <<>> ELSE Head(ms).functions \o FlatFunctions(Tail(ms))

\* TypeChecker::find_function(..).is_some()
TypeChecker_find_function(t, name, args) ==
  \E def \in Range(FlatFunctions(TypeChecker_iter_modules(t))) :
     def.name_in_code = name /\ def.args = args

\* TypeChecker::find_functions
TypeChecker_find_functions(t, name) ==
  SelectSeq(FlatFunctions(TypeChecker_iter_modules(t)),
            LAMBDA def : def.name_in_code = name)

\* TypeChecker::find_global(..): the type of the first global of that name
TypeChecker_find_global(t, name) ==
  LET found == SelectSeq(TypeChecker_iter_modules(t),
                         LAMBDA m : name \in DOMAIN m.globals)
  IN IF found = <<>> THEN NoType ELSE found[1].globals[name]

\* TypeChecker::add_global
TypeChecker_add_global(t, name, type_tag) ==
  [t EXCEPT !.module.globals = (name :> type_tag) @@ @]

\* TypeChecker::add_function
TypeChecker_add_function(t, def) ==
  [t EXCEPT !.module.functions = Append(@, def)]

\* expressions of the top level of a module: a function definition, a
\* foreign binding, a call with literal arguments.  A function definition
\* is also an expression tree, so that it can stand inside a body.
Expr_fun(name, args, body) ==
  [construct |-> "fun", name |-> name, args |-> args, type_tag |-> NoType,
   tag |-> "Tree", s |-> "fun", v |-> 0, kids |-> <<body>>]
Expr_cbind(name, type_tag) ==
  [construct |-> "cbind", name |-> name, args |-> <<>>, type_tag |-> type_tag]
Expr_call(name, args) ==
  [construct |-> "call", name |-> name, args |-> args, type_tag |-> NoType]

\* Result<TypedNode, Error> of the FunctionChecker, with the checker state
Checked(t, n, error) == [t |-> t, node |-> n, error |-> error]

\* ("return", exprs): `*self.labels_in_scope.first().unwrap()`
return_label_last(labels_in_scope) == labels_in_scope[Len(labels_in_scope)]
return_label(labels_in_scope) == labels_in_scope[1]

RECURSIVE to_ast(_, _, _)
RECURSIVE to_ast_each(_, _, _, _)
RECURSIVE to_ast_next(_, _, _, _)
RECURSIVE to_function_body(_, _, _)
RECURSIVE construct_to_ast(_, _, _)
RECURSIVE fun_to_ast(_, _)

\* FunctionChecker::to_function_body, after the body has been checked
label_body(r, label_id) ==
  IF r.error # "" THEN r
  ELSE Checked(r.t,
         [TypedNode("Label", r.node.type_tag, <<r.node>>) EXCEPT !.label = label_id],
         "")

\* FunctionChecker::to_function_body
to_function_body(t, labels_in_scope, expr) ==
  IF labels_in_scope # <<>>
    THEN Checked(t, NoNode, "panic: labels_in_scope in invalid state")
    ELSE label_body(to_ast([t EXCEPT !.gen = @ + 1], <<t.gen + 1>>, expr),
                    t.gen + 1)

\* the children of a construct, in order, until the first error
to_ast_next(r, labels_in_scope, exprs, nodes) ==
  IF r.error # ""
    THEN [t |-> r.t, nodes |-> nodes, error |-> r.error]
    ELSE to_ast_each(r.t, labels_in_scope, exprs, Append(nodes, r.node))

to_ast_each(t, labels_in_scope, exprs, nodes) ==
  IF exprs = <<>> THEN [t |-> t, nodes |-> nodes, error |-> ""]
  ELSE to_ast_next(to_ast(t, labels_in_scope, Head(exprs)), labels_in_scope,
                   Tail(exprs), nodes)

\* ("block", exprs): the type of a block is the type of its last node
block_node(r) ==
  IF r.error # "" THEN Checked(r.t, NoNode, r.error)
  ELSE Checked(r.t,
         TypedNode("Block",
                   IF r.nodes = <<>> THEN Type_Prim("Void")
                   ELSE r.nodes[Len(r.nodes)].type_tag,
                   r.nodes),
         "")

\* ("while", [condition_expr, body_expr]): the loop under its own label
while_node(r, label_id) ==
  IF r.error # "" THEN Checked(r.t, NoNode, r.error)
  ELSE Checked(r.t,
         [TypedNode("Label", Type_Prim("Void"),
                    <<TypedNode("While", Type_Prim("Void"), r.nodes)>>)
            EXCEPT !.label = label_id],
         "")

\* ("return", exprs) with a value
return_node(r, labels_in_scope) ==
  IF r.error # "" THEN r
  ELSE Checked(r.t,
         [TypedNode("BreakToLabel", r.node.type_tag, <<r.node>>)
            EXCEPT !.label = return_label(labels_in_scope), !.from = "return"],
         "")

\* ("fun", exprs) after the body has been checked by its own FunctionChecker
fun_define(r, e) ==
  IF r.error # "" THEN r
  ELSE IF TypeChecker_find_function(r.t, e.name, e.args)
    THEN Checked(r.t, NoNode, "function with that name already defined")
  ELSE Checked(
         TypeChecker_add_function([r.t EXCEPT !.gen = @ + 1],
           TypeChecker_FunctionDefinition(r.t.module.id, e.name, e.args,
              r.node.type_tag, "Normal", r.node)),
         TypedNode("FunctionDefinition", Type_Prim("Void"), <<>>), "")

\* FunctionChecker::construct_to_ast, ("fun", exprs)
fun_to_ast(t, e) ==
  IF \E i \in DOMAIN e.args : e.args[i] = Type_Prim("Void")
    THEN Checked(t, NoNode, "functions args cannot be void")
    ELSE fun_define(to_function_body(t, <<>>, e.kids[1]), e)

\* FunctionChecker::construct_to_ast for the constructs of a function body
construct_to_ast(t, labels_in_scope, expr) ==
  CASE expr.s = "block" ->
         block_node(to_ast_each(t, labels_in_scope, expr.kids, <<>>))
    [] expr.s = "while" /\ Len(expr.kids) = 2 ->
         while_node(to_ast_each([t EXCEPT !.gen = @ + 1],
                                Append(labels_in_scope, t.gen + 1),
                                expr.kids, <<>>),
                    t.gen + 1)
    [] expr.s = "return" ->
         IF Len(expr.kids) > 1
           THEN Checked(t, NoNode, "malformed return expression")
         ELSE IF Len(expr.kids) = 1
           THEN return_node(to_ast(t, labels_in_scope, expr.kids[1]),
                            labels_in_scope)
         ELSE Checked(t,
                [TypedNode("BreakToLabel", Type_Prim("Void"), <<>>)
                   EXCEPT !.label = return_label(labels_in_scope),
                          !.from = "return"],
                "")
    [] expr.s = "fun" -> fun_to_ast(t, expr)
    [] OTHER -> Checked(t, NoNode, "unsupported expression")

\* FunctionChecker::to_ast
to_ast(t, labels_in_scope, expr) ==
  IF expr.tag = "LiteralFloat"
    THEN Checked(t, [TypedNode("Literal", Type_Prim("F64"), <<>>)
                       EXCEPT !.v = VFloat(expr.v)], "")
  ELSE IF expr.tag = "LiteralBool"
    THEN Checked(t, [TypedNode("Literal", Type_Prim("Bool"), <<>>)
                       EXCEPT !.v = VBool(expr.v = 1)], "")
  ELSE IF expr.tag = "Symbol"
    THEN IF expr.s = "break"
           THEN IF labels_in_scope = <<>>
                  THEN Checked(t, NoNode, "panic: unwrap on None")
                  ELSE Checked(t,
                         [TypedNode("BreakToLabel", Type_Prim("Void"), <<>>)
                            EXCEPT !.label = labels_in_scope[Len(labels_in_scope)],
                                   !.from = "break"],
                         "")
           ELSE Checked(t, NoNode, "unknown symbol")
  ELSE construct_to_ast(t, labels_in_scope, expr)

\* the state of to_typed_module: the checker, the label of the top-level
\* function body, the expressions still to be checked, the typed nodes
\* produced, the error that ended the check
TypeCheck_new(id, modules, exprs) ==
  [phase |-> "typecheck",
   t |-> TypeChecker_new(TypedModule_new(id), modules, id + 1),
   labels_in_scope |-> <<id + 1>>,
   exprs |-> exprs, nodes |-> <<>>, error |-> ""]

\* Err(..) propagated by `?`: the check ends and no module is returned
TypeCheck_error(s, message) == [s EXCEPT !.phase = "error", !.error = message]

\* Ok(node(..)) of one top-level expression
TypeCheck_node(s, n) ==
  [s EXCEPT !.nodes = Append(@, n), !.exprs = Tail(@)]

\* one top-level expression checked by the FunctionChecker
TypeCheck_checked(s, r) ==
  IF r.error # "" THEN TypeCheck_error(s, r.error)
  ELSE TypeCheck_node([s EXCEPT !.t = r.t], r.node)

\* FunctionChecker::construct_to_ast, ("fun", exprs), at the top level
construct_to_ast_fun(s, e) == TypeCheck_checked(s, fun_to_ast(s.t, e))

\* FunctionChecker::construct_to_ast, ("cbind", [e])
construct_to_ast_cbind(s, e) ==
  IF e.type_tag.k = "Fun"
    THEN TypeCheck_node(
           [s EXCEPT !.t = TypeChecker_add_function(@,
              TypeChecker_FunctionDefinition(s.t.module.id, e.name,
                 Tail(e.type_tag.of), Head(e.type_tag.of), "CFunction", NoNode))],
           TypedNode("CBind", Type_Prim("Void"), <<>>))
    ELSE TypeCheck_node(
           [s EXCEPT !.t = TypeChecker_add_global(@, e.name, e.type_tag)],
           TypedNode("CBind", Type_Prim("Void"), <<>>))

\* FunctionChecker::construct_to_ast, ("call", exprs), for a function name
\* that is no intrinsic and arguments that are literals
construct_to_ast_call(s, e) ==
  LET function_value == TypeChecker_find_global(s.t, e.name)
      call == TypedNode("FunctionCall", Type_Prim("Void"), <<>>)
  IN IF function_value # NoType
       THEN IF function_value.k # "Fun"
              THEN TypeCheck_error(s, "no function match this name and parameters")
            ELSE IF Len(function_value.of) - 1 # Len(e.args)
              THEN TypeCheck_error(s, "incorrect number of arguments passed")
            ELSE IF Tail(function_value.of) # e.args
              THEN TypeCheck_error(s, "incorrect argument types")
            ELSE TypeCheck_node(s, call)
     ELSE IF \E def \in Range(TypeChecker_find_functions(s.t, e.name)) :
                def.args = e.args
       THEN TypeCheck_node(s, call)
     ELSE TypeCheck_error(s, "no function found")

\* to_typed_module, after the body: the top-level function of the module
to_typed_module_top_level(s) ==
  IF \E def \in Range(s.t.module.functions) :
        def.name_in_code = TOP_LEVEL_FUNCTION_NAME
    THEN TypeCheck_error(s, "top level function already defined!")
    ELSE [s EXCEPT !.phase = "ok",
                   !.t = TypeChecker_add_function(@,
                      TypeChecker_FunctionDefinition(s.t.module.id,
                         TOP_LEVEL_FUNCTION_NAME, <<>>, Type_Prim("Void"),
                         "Normal",
                         [TypedNode("Label", Type_Prim("Void"),
                                    <<TypedNode("Block", Type_Prim("Void"), s.nodes)>>)
                            EXCEPT !.label = s.labels_in_scope[1]]))]

\* Running a typed tree: a BreakToLabel leaves the innermost enclosing
\* Label node with its label, which then has the value carried by the
\* break.  An outcome is normal, a break on its way to a label, or a loop
\* that cannot end; ran lists the literals evaluated and the breaks taken.
Outcome(k, label_id, v, ran) == [k |-> k, label |-> label_id, v |-> v, ran |-> ran]

RECURSIVE eval(_)
RECURSIVE eval_block(_, _, _)
RECURSIVE eval_block_next(_, _, _)

eval_label(r, label_id) ==
  IF r.k = "break" /\ r.label = label_id THEN Outcome("normal", 0, r.v, r.ran)
  ELSE r

eval_break(r, n) ==
  IF r.k # "normal" THEN r
  ELSE Outcome("break", n.label, r.v, Append(r.ran, [what |-> n.from, v |-> r.v]))

eval_while_body(cnd, r) ==
  IF r.k = "normal" THEN Outcome("diverge", 0, VUnit, cnd.ran \o r.ran)
  ELSE [r EXCEPT !.ran = cnd.ran \o @]

eval_block_next(r, rest, ran) ==
  IF r.k # "normal" THEN [r EXCEPT !.ran = ran \o @]
  ELSE eval_block(rest, r.v, ran \o r.ran)

eval_block(nodes, v, ran) ==
  IF nodes = <<>> THEN Outcome("normal", 0, v, ran)
  ELSE eval_block_next(eval(Head(nodes)), Tail(nodes), ran)

eval_while(cnd, body) ==
  IF cnd.k # "normal" THEN cnd
  ELSE IF cnd.v # VBool(TRUE) THEN Outcome("normal", 0, VUnit, cnd.ran)
  ELSE eval_while_body(cnd, eval(body))

eval(n) ==
  CASE n.content = "Literal" ->
         Outcome("normal", 0, n.v, <<[what |-> "literal", v |-> n.v]>>)
    [] n.content = "Block" -> eval_block(n.kids, VUnit, <<>>)
    [] n.content = "While" -> eval_while(eval(n.kids[1]), n.kids[2])
    [] n.content = "Label" -> eval_label(eval(n.kids[1]), n.label)
    [] n.content = "BreakToLabel" ->
         IF n.kids = <<>>
           THEN Outcome("break", n.label, VUnit, <<[what |-> n.from, v |-> VUnit]>>)
           ELSE eval_break(eval(n.kids[1]), n)
    [] OTHER -> Outcome("normal", 0, VUnit, <<>>)

\* function bodies: a literal, a `return` at nesting depth 0, 1 and 2 of
\* while loops and blocks, a `break`, a loop that never runs, and nested
\* functions with their own `return`
Return(e) == Tree("return", <<e>>)

FunctionBodyExprs ==
  { Block(<<LiteralFloat(1)>>),
    Block(<<Return(LiteralFloat(10)), LiteralFloat(20)>>),
    Block(<<While(LiteralBool(TRUE),
                  Block(<<Return(LiteralFloat(10)), LiteralFloat(30)>>)),
            LiteralFloat(20)>>),
    Block(<<While(LiteralBool(TRUE),
                  Block(<<While(LiteralBool(TRUE), Block(<<Return(LiteralFloat(10))>>)),
                          LiteralFloat(30)>>)),
            LiteralFloat(20)>>),
    Block(<<While(LiteralBool(TRUE), Block(<<Symbol("break"), LiteralFloat(30)>>)),
            LiteralFloat(20)>>),
    Block(<<While(LiteralBool(FALSE), Block(<<Return(LiteralFloat(10))>>)),
            LiteralFloat(20)>>),
    Block(<<While(LiteralBool(TRUE),
                  Block(<<Expr_fun("h", <<Type_Prim("I64")>>,
                             Block(<<While(LiteralBool(TRUE),
                                       Block(<<Return(LiteralFloat(5))>>)),
                                     LiteralFloat(6)>>)),
                          Block(<<Return(LiteralFloat(10))>>),
                          LiteralFloat(30)>>)),
            LiteralFloat(20)>>) }

\* the expressions a module is made of
TypeCheckExprs ==
  { Expr_fun("f", <<Type_Prim("I64")>>, body) : body \in FunctionBodyExprs }
  \cup { Expr_fun("g", <<Type_Prim("I64")>>, Block(<<LiteralFloat(1)>>)),
         Expr_fun("f", <<Type_Prim("F64")>>, Block(<<LiteralFloat(1)>>)) }
  \cup { Expr_cbind("f", t) :
      t \in { Type_Fun(Type_Prim("I64"), <<Type_Prim("I64")>>),
              Type_Fun(Type_Prim("I64"), <<>>), Type_Prim("I64") } }
  \cup { Expr_call(n, <<Type_Prim("I64")>>) : n \in {"f", "g"} }

RECURSIVE TypeCheckPrograms(_)
TypeCheckPrograms(n) ==
  IF n = 0 THEN {<<>>}
  ELSE {<<>>} \cup { <<e>> \o rest : e \in TypeCheckExprs,
                                      rest \in TypeCheckPrograms(n - 1) }

\* the modules a unit imports: none, or one that defines g(i64)
TypeCheckImports ==
  { <<>>,
    <<[TypedModule_new(1) EXCEPT !.functions =
         <<TypeChecker_FunctionDefinition(1, "g", <<Type_Prim("I64")>>,
                                          Type_Prim("I64"), "CFunction", NoNode)>>]>> }

\* ------------------------------------------------------------------------

\* The compiler + VM state machine
\* ------------------------------------------------------------------------
EntryName == "main"

InfIdle == [phase |-> "idle"]

Init ==
  /\ caret = Caret_new
  /\ text_buffer = <<>>
  /\ ver \in {"vm", "legacy"}
  /\ ast \in Programs
  /\ program = BytecodeProgram(EmptyMap, <<>>)
  /\ stack = <<>>
  /\ callstack = <<>>
  /\ c = NoCall
  /\ heap = <<>>
  /\ status = "source"
  /\ result = VUnit
  /\ steps = 0
  /\ store = Compiler_new(FALSE)
  /\ load = LoadIdle
  /\ history = HistoryInit
  /\ inf = InfIdle

\* compile_bytecode / compile_to_bytecode
compile_bytecode ==
  /\ status = "source"
  /\ LET env == compile_entry(ver, ast, EntryName)
     IN IF env.err # ""
          THEN /\ status' = "compile_error"
               /\ UNCHANGED program
          ELSE /\ \E order \in SortedByHandle(env.functions) :
                    program' = [BytecodeProgram(env.functions, order)
                                  EXCEPT !.structs = env.structs]
               /\ status' = "compiled"
  /\ UNCHANGED <<ver, ast, stack, callstack, c, heap, result, steps>>
  /\ UNCHANGED <<loadvars, infvars, editvars>>

SetVm(vm) ==
  /\ stack' = vm.stack
  /\ callstack' = vm.callstack
  /\ c' = vm.c
  /\ heap' = vm.heap
  /\ status' = vm.status
  /\ result' = vm.result

\* interpret: look the entry function up by name and make the first call
interpret ==
  /\ status = "compiled"
  /\ LET entry_function_handle ==
           (CHOOSE i \in 1..Len(program.info) :
              /\ program.info[i].name = EntryName
              /\ \A j \in 1..(i - 1) : program.info[j].name # EntryName) - 1
         vm0 == Vm(<<>>, <<>>, NoCall, <<>>, "running", VUnit)
     IN SetVm(new_function_call(program, vm0, entry_function_handle))
  /\ UNCHANGED <<ver, ast, program, steps>>
  /\ UNCHANGED <<loadvars, infvars, editvars>>

\* interpret_bytecode: one turn of its loop
interpret_bytecode ==
  /\ status = "running"
  /\ steps < MaxSteps
  /\ SetVm(interpret_instruction(program, Vm(stack, callstack, c, heap, status, result)))
  /\ steps' = steps + 1
  /\ UNCHANGED <<ver, ast, program>>
  /\ UNCHANGED <<loadvars, infvars, editvars>>

Next == compile_bytecode \/ interpret \/ interpret_bytecode

Spec == Init /\ [][Next]_vars


\* ------------------------------------------------------------------------
\* The unit manager state machine
\* ------------------------------------------------------------------------
\* the load has returned: what stays is its result and the units it created
Returned(ld, res) ==
  [LoadIdle EXCEPT !.unit_id = ld.unit_id, !.imports = ld.imports,
                   !.new_units = ld.new_units, !.result = res]

InitLoad ==
  /\ caret = Caret_new
  /\ text_buffer = <<>>
  /\ ver = "vm"
  /\ ast = LiteralFloat(0)
  /\ program = BytecodeProgram(EmptyMap, <<>>)
  /\ stack = <<>>
  /\ callstack = <<>>
  /\ c = NoCall
  /\ heap = <<>>
  /\ status = "source"
  /\ result = VUnit
  /\ steps = 0
  /\ \E purge \in BOOLEAN : store = Compiler_new(purge)
  /\ load = LoadIdle
  /\ history = HistoryInit
  /\ inf = InfIdle

\* load_module up to its call of load_module_from_expr_internal
load_module ==
  /\ load.phase = "idle"
  /\ store.gen < MaxGen
  /\ \E imports \in ImportLists(store), parsed \in BOOLEAN :
       /\ store' = create_unit(gen_next(store), store.gen + 1)
       /\ load' = IF parsed
                    THEN [LoadIdle EXCEPT !.phase = "internal",
                                          !.unit_id = store.gen + 1, !.imports = imports]
                    ELSE [LoadIdle EXCEPT !.unit_id = store.gen + 1, !.result = "err"]
  /\ history' = [history EXCEPT !.found = <<>>, !.groups = <<>>]
  /\ UNCHANGED <<vmvars, infvars, editvars>>

\* load_expr_as_module up to its call of load_module_from_expr_internal
load_expr_as_module ==
  /\ load.phase = "idle"
  /\ store.gen < MaxGen
  /\ \E imports \in ImportLists(store) :
       /\ store' = create_unit(gen_next(store), store.gen + 1)
       /\ load' = [LoadIdle EXCEPT !.phase = "internal",
                                   !.unit_id = store.gen + 1, !.imports = imports]
  /\ history' = [history EXCEPT !.found = <<>>, !.groups = <<>>]
  /\ UNCHANGED <<vmvars, infvars, editvars>>

\* inner: the imports, structure and typecheck_module
load_module_from_expr_internal ==
  /\ load.phase = "internal"
  /\ \E outcome \in {"structure_err", "typecheck_err", "ok"}, poly \in BOOLEAN :
       IF outcome # "ok"
         THEN /\ store' = add_imports(store, load.unit_id,
                                      sort_dedup(Append(load.imports, store.intrinsics)))
              /\ load' = [load EXCEPT !.phase = "failed", !.new_units = <<load.unit_id>>]
         ELSE \E refs \in PolymorphicReferences(
                            IF poly THEN store.polys \cup {load.unit_id} ELSE store.polys,
                            Range(load.imports) \cup {store.intrinsics, load.unit_id}) :
                /\ store' = typecheck_module(
                              add_imports(store, load.unit_id,
                                          sort_dedup(Append(load.imports, store.intrinsics))),
                              load.unit_id, poly, refs)
                /\ load' = [load EXCEPT !.phase = "instances",
                                        !.new_units = <<load.unit_id>>,
                                        !.search_queue = <<load.unit_id>>]
  /\ UNCHANGED <<history, vmvars, infvars, editvars>>

\* typecheck_new_polymorphic_instances: search_queue.pop_front()
search_queue_pop ==
  /\ load.phase = "instances"
  /\ load.pending = <<>>
  /\ load.search_queue # <<>>
  /\ \E polymorphic_references \in Orders(store.type_mappings[Head(load.search_queue)]) :
       load' = [load EXCEPT !.psid = Head(load.search_queue),
                            !.search_queue = Tail(@),
                            !.pending = polymorphic_references]
  /\ UNCHANGED <<store, history, vmvars, infvars, editvars>>

\* typecheck_new_polymorphic_instances: one polymorphic reference
poly_reference ==
  /\ load.phase = "instances"
  /\ load.pending # <<>>
  /\ IF poly_instance(store, Head(load.pending)[1], Head(load.pending)[2]) # 0
       THEN /\ store' = add_import(store, load.psid,
                          poly_instance(store, Head(load.pending)[1], Head(load.pending)[2]))
            /\ load' = [load EXCEPT !.pending = Tail(@)]
            /\ history' = [history EXCEPT !.found =
                 <<Head(load.pending)[1], Head(load.pending)[2],
                   poly_instance(store, Head(load.pending)[1], Head(load.pending)[2]),
                   poly_instance(store, Head(load.pending)[1], Head(load.pending)[2])
                     \in store.units>>]
       ELSE /\ store.gen < MaxGen
            /\ \E typechecked \in BOOLEAN :
                 IF ~typechecked
                   THEN /\ store' = create_instance_unit(store, Head(load.pending)[1])
                        /\ load' = [load EXCEPT !.phase = "failed",
                                                !.new_units = Append(@, store.gen + 1),
                                                !.search_queue = Append(@, store.gen + 1)]
                        /\ UNCHANGED history
                   ELSE \E refs \in PolymorphicReferences(store.polys,
                                      instance_dependencies(store, Head(load.pending)[1])) :
                          /\ store' = register_instance(
                                        create_instance_unit(store, Head(load.pending)[1]),
                                        load.psid, Head(load.pending)[1], Head(load.pending)[2],
                                        store.gen + 1, refs)
                          /\ load' = [load EXCEPT !.pending = Tail(@),
                                                  !.new_units = Append(@, store.gen + 1),
                                                  !.search_queue = Append(@, store.gen + 1)]
                          /\ history' = [history EXCEPT !.registered = @ \cup
                               {<<Head(load.pending)[1], Head(load.pending)[2], store.gen + 1>>}]
  /\ UNCHANGED <<vmvars, infvars, editvars>>

\* codegen up to its loop: the graph, its components and their ordering
codegen ==
  /\ load.phase = "instances"
  /\ load.pending = <<>>
  /\ load.search_queue = <<>>
  /\ \E groups \in codegen_orderings(store, load.new_units) :
       load' = [load EXCEPT !.phase = "codegen", !.ordering = groups]
  /\ UNCHANGED <<store, history, vmvars, infvars, editvars>>

\* codegen: one turn of its loop
compile_unit_group ==
  /\ load.phase = "codegen"
  /\ load.ordering # <<>>
  /\ store.gen < MaxGen
  /\ history' = [history EXCEPT !.groups = Append(@, Head(load.ordering))]
  /\ \E compiled \in BOOLEAN :
       IF compiled
         THEN /\ store' = [gen_next(store) EXCEPT !.codegen_mapping =
                             [u \in Head(load.ordering) |-> store.gen + 1] @@ @]
              /\ load' = [load EXCEPT !.ordering = Tail(@)]
         ELSE /\ store' = gen_next(store)
              /\ load' = [load EXCEPT !.phase = "failed"]
  /\ UNCHANGED <<vmvars, infvars, editvars>>

\* initialise, and the return of the load when it succeeds
initialise ==
  /\ load.phase = "codegen"
  /\ load.ordering = <<>>
  /\ \E ran \in BOOLEAN :
       IF ran
         THEN /\ store' = [store EXCEPT !.vals = @ \cup {load.unit_id}]
              /\ load' = Returned(load, "ok")
         ELSE /\ load' = [load EXCEPT !.phase = "failed"]
              /\ UNCHANGED store
  /\ UNCHANGED <<history, vmvars, infvars, editvars>>

\* load_module_from_expr_internal when inner returned an error
rollback ==
  /\ load.phase = "failed"
  /\ store' = remove_units(store, load.new_units)
  /\ load' = Returned(load, "err")
  /\ UNCHANGED <<history, vmvars, infvars, editvars>>

NextLoad ==
  \/ load_module
  \/ load_expr_as_module
  \/ load_module_from_expr_internal
  \/ search_queue_pop
  \/ poly_reference
  \/ codegen
  \/ compile_unit_group
  \/ initialise
  \/ rollback

SpecLoad == InitLoad /\ [][NextLoad]_vars


\* ------------------------------------------------------------------------
\* find_all_dependents (src/compiler/src/compiler.rs), one turn of its while
\* loop per step, on an import graph over 1..MaxUnits without self-imports
\* ------------------------------------------------------------------------
MaxUnits == 3

ImportGraphs ==
  SUBSET { e \in (1..MaxUnits) \X (1..MaxUnits) : e[1] # e[2] }

\* the importers of uid that the for loop inserts, swapped for its imports
new_dependents_imports(st, uids, uid) == get_imports(st, uid) \ uids

\* find_all_dependents: the importers of uid that the for loop inserts
new_dependents(st, uids, uid) == get_importers(st, uid) \ uids

\* find_all_dependents up to its loop
InitDependents ==
  /\ caret = Caret_new
  /\ text_buffer = <<>>
  /\ ver = "vm"
  /\ ast = LiteralFloat(0)
  /\ program = BytecodeProgram(EmptyMap, <<>>)
  /\ stack = <<>>
  /\ callstack = <<>>
  /\ c = NoCall
  /\ heap = <<>>
  /\ status = "source"
  /\ result = VUnit
  /\ steps = 0
  /\ \E imports \in ImportGraphs :
       store = [Compiler_new(FALSE) EXCEPT !.gen = MaxUnits, !.units = 1..MaxUnits,
                                           !.imports = imports]
  /\ \E uid \in 1..MaxUnits :
       load = [phase |-> "dependents", uid |-> uid, uids |-> {uid}, queue |-> <<uid>>,
               popped |-> 0, result |-> <<>>]
  /\ history = HistoryInit
  /\ inf = InfIdle

\* find_all_dependents: queue.pop_front() and the for loop over the importers
find_all_dependents ==
  /\ load.phase = "dependents"
  /\ load.queue # <<>>
  /\ \E order \in Orders(new_dependents(store, load.uids, Head(load.queue))) :
       load' = [load EXCEPT !.uids = @ \cup Range(order),
                            !.queue = Tail(@) \o order,
                            !.popped = @ + 1]
  /\ UNCHANGED <<store, history, vmvars, infvars, editvars>>

\* find_all_dependents: the queue is empty, uids.into_iter().collect()
find_all_dependents_return ==
  /\ load.phase = "dependents"
  /\ load.queue = <<>>
  /\ \E order \in Orders(load.uids) :
       load' = [load EXCEPT !.phase = "returned", !.result = order]
  /\ UNCHANGED <<store, history, vmvars, infvars, editvars>>

NextDependents == find_all_dependents \/ find_all_dependents_return

SpecDependents == InitDependents /\ [][NextDependents]_vars

\* ------------------------------------------------------------------------
\* The constraint solver state machine
\* ------------------------------------------------------------------------
InitInfer ==
  /\ caret = Caret_new
  /\ text_buffer = <<>>
  /\ ver = "vm"
  /\ ast = LiteralFloat(0)
  /\ program = BytecodeProgram(EmptyMap, <<>>)
  /\ stack = <<>>
  /\ callstack = <<>>
  /\ c = NoCall
  /\ heap = <<>>
  /\ status = "source"
  /\ result = VUnit
  /\ steps = 0
  /\ store = Compiler_new(FALSE)
  /\ load = LoadIdle
  /\ history = HistoryInit
  /\ \E constraints \in ConstraintLists : inf = Inference_new(constraints)

\* infer: the first pass, one constraint per step
infer_first_pass ==
  /\ inf.phase = "first"
  /\ inf' = IF inf.pos > Len(inf.constraints)
              THEN [inf EXCEPT !.phase = "loop", !.total_passes = 1]
              ELSE first_pass_step(process_constraint(inf, inf.constraints[inf.pos]))
  /\ UNCHANGED <<vmvars, loadvars, editvars>>

\* infer: the test of the while loop and the start of a pass
infer_pass ==
  /\ inf.phase = "loop"
  /\ inf' = IF Len(inf.unused_constraints) > 0
              THEN [inf EXCEPT !.phase = "retain",
                               !.total_passes = @ + 1,
                               !.remaining_before_pass = Len(inf.unused_constraints),
                               !.pos = 1,
                               !.retained = <<>>]
              ELSE [inf EXCEPT !.phase = "report"]
  /\ UNCHANGED <<vmvars, loadvars, editvars>>

\* infer: unused_constraints.retain, one constraint per step, and the exit
\* test at the end of the pass
infer_retain ==
  /\ inf.phase = "retain"
  /\ inf' = IF inf.pos > Len(inf.unused_constraints)
              THEN pass_end(inf)
              ELSE retain_step(
                     process_constraint(inf, inf.constraints[inf.unused_constraints[inf.pos]]),
                     inf.unused_constraints[inf.pos])
  /\ UNCHANGED <<vmvars, loadvars, editvars>>

\* infer: after the loop
infer_report ==
  /\ inf.phase = "report"
  /\ inf' = sanity_check(unresolved_constraint_errors(inf, inf.unused_constraints))
  /\ UNCHANGED <<vmvars, loadvars, editvars>>

NextInfer == infer_first_pass \/ infer_pass \/ infer_retain \/ infer_report

SpecInfer == InitInfer /\ [][NextInfer]_vars

SpecInferFair == SpecInfer /\ WF_vars(NextInfer)

\* infer_types: the gatherer's constraints of a tree, then infer
InitGather ==
  /\ caret = Caret_new
  /\ text_buffer = <<>>
  /\ ver = "vm"
  /\ ast = LiteralFloat(0)
  /\ program = BytecodeProgram(EmptyMap, <<>>)
  /\ stack = <<>>
  /\ callstack = <<>>
  /\ c = NoCall
  /\ heap = <<>>
  /\ status = "source"
  /\ result = VUnit
  /\ steps = 0
  /\ store = Compiler_new(FALSE)
  /\ load = LoadIdle
  /\ history = HistoryInit
  /\ \E stmts \in GatherPrograms(MaxStmts, {}) : inf = infer_types(Content_Block(stmts))

SpecGather == InitGather /\ [][NextInfer]_vars

\* ------------------------------------------------------------------------
\* infer_types on a module that already holds the globals of an earlier
\* unit: global definitions and references to them
\* ------------------------------------------------------------------------
MaxGlobalStmts == 3

GlobalStatements ==
  { Node("VariableInitialise", "a", <<Content_Literal("Integer")>>, "Repl", <<>>),
    Node("CBind", "g", <<>>, "i64", <<>>),
    Node("CBind", "a", <<>>, "i64", <<>>),
    Content_GlobalReference("a"),
    Content_GlobalReference("g") }

GlobalPrograms == UNION { [1..n -> GlobalStatements] : n \in 0..MaxGlobalStmts }

\* the globals of new_module when infer_types is called
EarlierGlobals ==
  { <<>>,
    <<GlobalDefinition("a", FALSE, "Repl", Type_Prim("I64"))>>,
    <<GlobalDefinition("g", FALSE, "Repl", Type_Prim("I64"))>>,
    <<GlobalDefinition("g", FALSE, "CBind", Type_Prim("Bool"))>> }

InitGlobals ==
  /\ caret = Caret_new
  /\ text_buffer = <<>>
  /\ ver = "vm"
  /\ ast = LiteralFloat(0)
  /\ program = BytecodeProgram(EmptyMap, <<>>)
  /\ stack = <<>>
  /\ callstack = <<>>
  /\ c = NoCall
  /\ heap = <<>>
  /\ status = "source"
  /\ result = VUnit
  /\ steps = 0
  /\ store = Compiler_new(FALSE)
  /\ load = LoadIdle
  /\ history = HistoryInit
  /\ \E stmts \in GlobalPrograms, globals \in EarlierGlobals :
       inf = [infer_types(Content_Block(stmts)) EXCEPT !.globals = globals]

SpecGlobals == InitGlobals /\ [][NextInfer]_vars

\* ------------------------------------------------------------------------
\* The legacy type checker state machine: to_typed_module checks the
\* top-level expressions of a module in order
\* ------------------------------------------------------------------------
InitTypeCheck ==
  /\ caret = Caret_new
  /\ text_buffer = <<>>
  /\ ver = "vm"
  /\ ast = LiteralFloat(0)
  /\ program = BytecodeProgram(EmptyMap, <<>>)
  /\ stack = <<>>
  /\ callstack = <<>>
  /\ c = NoCall
  /\ heap = <<>>
  /\ status = "source"
  /\ result = VUnit
  /\ steps = 0
  /\ store = Compiler_new(FALSE)
  /\ load = LoadIdle
  /\ history = HistoryInit
  /\ \E exprs \in TypeCheckPrograms(MaxExprs), modules \in TypeCheckImports :
       inf = TypeCheck_new(2, modules, exprs)

TypeCheckStep(construct) ==
  /\ inf.phase = "typecheck"
  /\ inf.exprs # <<>>
  /\ Head(inf.exprs).construct = construct
  /\ UNCHANGED <<ver, ast, program, stack, callstack, c, heap, status, result,
                 steps, store, load, history, editvars>>

to_ast_fun ==
  /\ TypeCheckStep("fun")
  /\ inf' = construct_to_ast_fun(inf, Head(inf.exprs))

to_ast_cbind ==
  /\ TypeCheckStep("cbind")
  /\ inf' = construct_to_ast_cbind(inf, Head(inf.exprs))

to_ast_call ==
  /\ TypeCheckStep("call")
  /\ inf' = construct_to_ast_call(inf, Head(inf.exprs))

to_typed_module ==
  /\ inf.phase = "typecheck"
  /\ inf.exprs = <<>>
  /\ inf' = to_typed_module_top_level(inf)
  /\ UNCHANGED <<ver, ast, program, stack, callstack, c, heap, status, result,
                 steps, store, load, history, editvars>>

NextTypeCheck == to_ast_fun \/ to_ast_cbind \/ to_ast_call \/ to_typed_module

SpecTypeCheck == InitTypeCheck /\ [][NextTypeCheck]_vars



\* ------------------------------------------------------------------------
\* Properties of the compiler and the VM
\* ------------------------------------------------------------------------

\* `let a = 0; false && { a = 1; .. }; a` and `let a = 0; true || { a = 1; .. }; a`
SkipPrograms ==
  { Block(<<Let("a", LiteralFloat(0)),
            Op2(o, LiteralBool(o = "||"),
                Block(<<Assign(Symbol("a"), LiteralFloat(1)), LiteralBool(r)>>)),
            Symbol("a")>>) : o \in {"&&", "||"}, r \in BOOLEAN }

\* C1: `a && b` evaluates b only when a is true and `a || b` only when a is
\* false: a program that assigns a variable inside the right operand of
\* `false && ..` or `true || ..` ends with the variable still holding its
\* old value 0.
C1_ShortCircuit ==
  (status = "done" /\ ast \in SkipPrograms) => result = VFloat(0)

AtFunctionEnd ==
  /\ status = "running"
  /\ c.program_counter >= Len(program.bytecode[c.function_handle + 1])
  /\ Len(stack) > 0

\* C2: in the VM of bytecode_vm.rs the program result is produced only when
\* the outermost frame finishes; when a called function finishes, the caller
\* is resumed at the instruction after the call with the callee's arguments
\* and locals replaced by the one return value.
C2_ReturnToCaller ==
  [][ (ver = "vm" /\ AtFunctionEnd) =>
        IF Len(callstack) = 0
          THEN status' = "done" /\ result' = Top(stack)
          ELSE /\ status' = "running"
               /\ callstack' = Pop1(callstack)
               /\ c'.function_handle = Top(callstack).function_handle
               /\ c'.var_base = Top(callstack).var_base
               /\ c'.program_counter = Top(callstack).program_counter + 1
               /\ stack' = Append(SubSeq(stack, 1, c.var_base), Top(stack)) ]_vars

\* C3: when the instructions of a compiled node have run to their end, the
\* operand stack is higher than at the node's first instruction by 1 if the
\* node produces a value and by 0 if it does not, also when a `break` ended
\* the node.
C3_StackNeutral ==
  status = "running" =>
    \A s \in DOMAIN c.entry :
      s.end = c.program_counter => Len(stack) = c.entry[s] + s.delta

Jumps(f) ==
  { i \in 1..Len(program.bytecode[f]) :
      program.bytecode[f][i].op \in {"Jump", "JumpIfFalse"} }

\* C4 as stated: every jump of a completed function targets a defined label
\* position that is an instruction index of the function.
C4_JumpInsideFunction ==
  status = "compiled" =>
    \A f \in 1..Len(program.bytecode) : \A i \in Jumps(f) :
      /\ program.bytecode[f][i].n # usize_MAX
      /\ program.bytecode[f][i].n < Len(program.bytecode[f])

\* C4 (amended): every jump of a completed function targets a defined label
\* position that is at most the length of the function's instruction list:
\* an instruction index, or, in bytecode_vm.rs only, the position one past
\* the last instruction, where the VM returns from the function.
C4_LabelClosure ==
  status = "compiled" =>
    \A f \in 1..Len(program.bytecode) : \A i \in Jumps(f) :
      /\ program.bytecode[f][i].n # usize_MAX
      /\ program.bytecode[f][i].n <= Len(program.bytecode[f])
      /\ ver = "legacy" => program.bytecode[f][i].n < Len(program.bytecode[f])

C4_Witness ==
  /\ status = "compiled"
  /\ ver = "vm"
  /\ \E f \in 1..Len(program.bytecode) : \E i \in Jumps(f) :
       program.bytecode[f][i].n = Len(program.bytecode[f])

\* C5: every PushVar(k) and SetVar(k) of a compiled function has
\* k < FunctionInfo.locals, and the function's argument count is at most
\* FunctionInfo.locals.
C5_ScopeIntegrity ==
  status = "compiled" =>
    \A f \in 1..Len(program.bytecode) :
      /\ Len(program.info[f].arguments) <= program.info[f].locals
      /\ \A i \in 1..Len(program.bytecode[f]) :
           program.bytecode[f][i].op \in {"PushVar", "SetVar"} =>
             program.bytecode[f][i].n < program.info[f].locals

\* ------------------------------------------------------------------------
\* Properties of the unit manager
\* ------------------------------------------------------------------------

\* the units the last call of load_module / load_expr_as_module created
CreatedByLoad == {load.unit_id} \cup Range(load.new_units)

\* C6: when a load has returned an error, no unit created during that call
\* (the new unit or a polymorphic instance unit) is in the code store.
C6_Rollback ==
  (load.phase = "idle" /\ load.result = "err") =>
    CreatedByLoad \cap store.units = {}

\* C7: for each (polymorphic function, concrete signature) at most one
\* instance unit is ever registered, also across loads that were rolled
\* back, and every lookup that finds an instance returns that unit while it
\* is present in the store.
C7_UniqueInstance ==
  /\ \A r1, r2 \in history.registered :
       (r1[1] = r2[1] /\ r1[2] = r2[2]) => r1[3] = r2[3]
  /\ history.found # <<>> =>
       /\ history.found[4]
       /\ <<history.found[1], history.found[2], history.found[3]>> \in history.registered

\* the import edges between the units of the current load
NewImports ==
  { e \in store.imports : e[1] \in Range(load.new_units) /\ e[2] \in Range(load.new_units) }

RECURSIVE ImportClosure(_, _)
ImportClosure(E, S) ==
  IF { e[2] : e \in { x \in E : x[1] \in S } } \subseteq S THEN S
  ELSE ImportClosure(E, S \cup { e[2] : e \in { x \in E : x[1] \in S } })

SameComponent(A, B) ==
  /\ B \in ImportClosure(NewImports, {A})
  /\ A \in ImportClosure(NewImports, {B})

\* C8: of two new units A and B where A imports B, the group of B is handed
\* to the backend before the group of A, unless they are in the same
\* strongly connected component, and then they are in the same group; no
\* unit is in two groups, and when the last group has been handed over every
\* new unit is in a group.
C8_DependencyOrder ==
  /\ \A i \in DOMAIN history.groups : \A A \in history.groups[i] :
       \A B \in get_imports(store, A) \cap Range(load.new_units) :
         IF SameComponent(A, B)
           THEN B \in history.groups[i]
           ELSE \E j \in 1..(i - 1) : B \in history.groups[j]
  /\ \A i, j \in DOMAIN history.groups :
       i # j => history.groups[i] \cap history.groups[j] = {}
  /\ (load.phase = "codegen" /\ load.ordering = <<>>) =>
       UNION Range(history.groups) = Range(load.new_units)

C8_Witness ==
  /\ load.phase = "codegen"
  /\ load.ordering = <<>>
  /\ \E i, j \in DOMAIN history.groups :
       /\ i < j
       /\ \E A \in history.groups[j], B \in history.groups[i] : <<A, B>> \in store.imports
  /\ \E i \in DOMAIN history.groups : Cardinality(history.groups[i]) = 2

\* ------------------------------------------------------------------------
\* Properties of the constraint solver
\* ------------------------------------------------------------------------

\* C9: infer terminates; it makes at most one pass more than there are
\* constraints, and when a pass of the while loop is followed by another
\* one it has removed at least one constraint from the unused list.
C9_Termination ==
  /\ [](inf.total_passes <= Len(inf.constraints) + 1)
  /\ []((inf.phase = "loop" /\ inf.total_passes >= 2) =>
          Len(inf.unused_constraints) < inf.remaining_before_pass)
  /\ <>(inf.phase \in {"done", "panic"})

C9_Witness ==
  /\ inf.phase = "done"
  /\ inf.total_passes = 3

\* C10: while the passes run, no Equalivalent, FunctionCall, Index or
\* Convert constraint is given the default type (I64 / F64) of a symbol that
\* is constrained by a numeric class only.
C10_NoDefaultMidPass ==
  inf.phase \in {"first", "loop", "retain"} => inf.defaults_read = {}

\* C11: for the constraints the gatherer produces, the sanity-check panic is
\* never reached, and when infer finishes with an empty error list every type
\* symbol is resolved
C11_NoSanityPanic ==
  /\ inf.phase # "panic"
  /\ (inf.phase = "done" /\ inf.errors = <<>>) => inf.symbols \subseteq DOMAIN inf.resolved

\* infer has finished with a type symbol left unresolved behind an unused
\* Equalivalent, and an error is recorded
C11_Witness ==
  /\ inf.phase = "done"
  /\ ~(inf.symbols \subseteq DOMAIN inf.resolved)
  /\ \E i \in DOMAIN inf.unused_constraints :
       inf.constraints[inf.unused_constraints[i]].kind = "Equalivalent"
  /\ inf.errors # <<>>

\* the constructors of defined struct types among the constraints
StructConstructors ==
  { i \in DOMAIN inf.constraints :
      /\ inf.constraints[i].kind = "Constructor"
      /\ inf.constraints[i].name \in DOMAIN inf.type_defs
      /\ inf.type_defs[inf.constraints[i].name].kind = "Struct" }

FieldNames(def) == { def.fields[i][1] : i \in DOMAIN def.fields }

\* constructor i names every field of the definition once, and nothing else
AllFieldsNamed(i) ==
  /\ Len(inf.constraints[i].fields) = Len(inf.type_defs[inf.constraints[i].name].fields)
  /\ Range(inf.constraints[i].fields) = FieldNames(inf.type_defs[inf.constraints[i].name])

\* C12: when infer has finished, a struct constructor naming a field that the
\* definition does not have has produced an error, and when every struct
\* constructor names exactly the fields of its definition none of them has
\* produced a field error and each has its struct type
C12_FieldNameStrictness ==
  inf.phase = "done" =>
    /\ (\E i \in StructConstructors :
          \E f \in Range(inf.constraints[i].fields) \ {""} :
             f \notin FieldNames(inf.type_defs[inf.constraints[i].name]))
         => inf.errors # <<>>
    /\ (StructConstructors # {} /\ \A i \in StructConstructors : AllFieldsNamed(i))
         => /\ "incorrect field name" \notin Range(inf.errors)
            /\ \A i \in StructConstructors :
                 get_type(inf, inf.constraints[i].result) = Type_Def(inf.constraints[i].name)

\* ------------------------------------------------------------------------
\* Properties of find_all_dependents
\* ------------------------------------------------------------------------
ReverseImports == { <<e[2], e[1]>> : e \in store.imports }

\* C13: find_all_dependents returns uid and every unit that reaches uid over
\* import edges, each once, after popping no more units than there are
C13_AllDependents ==
  /\ load.popped <= Cardinality(store.units)
  /\ load.phase = "returned" =>
       /\ Range(load.result) = ImportClosure(ReverseImports, {load.uid})
       /\ Len(load.result) = Cardinality(Range(load.result))

\* find_all_dependents has returned three units from a graph with a cycle
\* through uid
C13_Witness ==
  /\ load.phase = "returned"
  /\ Len(load.result) = 3
  /\ \E u \in store.units :
       <<u, load.uid>> \in store.imports /\ <<load.uid, u>> \in store.imports

\* C14: after a successful load with import list I the new unit imports the
\* intrinsics unit, every unit of I and every unit reachable from a unit of I
\* over import edges
C14_TransitiveImports ==
  (load.phase = "idle" /\ load.result = "ok") =>
    ({store.intrinsics} \cup ImportClosure(store.imports, Range(load.imports)))
      \subseteq get_imports(store, load.unit_id)

\* ------------------------------------------------------------------------
\* C15: while a module is checked and when it is returned, no two function
\* definitions visible to it (its own and those of the imported modules)
\* have the same source name and the same argument types
\* ------------------------------------------------------------------------
VisibleFunctions == FlatFunctions(TypeChecker_iter_modules(inf.t))

C15_UniqueFunctions ==
  inf.phase \in {"typecheck", "ok"} =>
    \A i, j \in DOMAIN VisibleFunctions :
       (/\ i # j
        /\ VisibleFunctions[i].name_in_code = VisibleFunctions[j].name_in_code)
       => VisibleFunctions[i].args # VisibleFunctions[j].args

\* ------------------------------------------------------------------------
\* C16: a program that writes to an array or a struct through one handle
\* and reads it through another (a variable, an array element, a struct
\* field) ends with the written value, and a number or boolean copied out
\* of a variable or a container keeps its value when the source is
\* overwritten; at every moment two handles with the same reference read
\* the same contents because there is one cell per reference
\* ------------------------------------------------------------------------
C16_HandleSharing ==
  /\ \A x \in AliasCases :
       (ast = x.code /\ status \notin {"source", "compiled", "running"}) =>
          (status = "done" /\ result = x.expected)
  /\ \A i \in DOMAIN stack :
       stack[i].t \in {"Array", "Struct"} => stack[i].n \in DOMAIN heap

C16_Witness ==
  /\ ast \in AliasPrograms
  /\ status = "done"
  /\ \E r \in DOMAIN heap : \E i \in DOMAIN heap[r].items :
        heap[r].items[i] = result

\* ------------------------------------------------------------------------
\* C17: when the VM is about to run ArrayIndex or SetArrayIndex with a
\* number below 0 or not below the array's length as the index, that turn
\* of the loop ends the run with an error, no value is returned and no
\* array changes; and no instruction runs once the run has ended with an
\* error
\* ------------------------------------------------------------------------
NextInstruction ==
  LET instructions == program.bytecode[c.function_handle + 1]
  IN IF status = "running" /\ c.program_counter < Len(instructions)
       THEN instructions[c.program_counter + 1]
       ELSE Instr("", 0, "", VUnit)

\* the operands of the next instruction are an array and an index outside it
IndexOutOfBounds ==
  LET n == Len(stack)
      k == IF NextInstruction.op = "SetArrayIndex" THEN n - 1 ELSE n
  IN /\ NextInstruction.op \in {"ArrayIndex", "SetArrayIndex"}
     /\ k >= 2
     /\ stack[k].t = "Float"
     /\ stack[k - 1].t = "Array"
     /\ (stack[k].n < 0 \/ stack[k].n >= Len(heap[stack[k - 1].n].items))

C17_OutOfBoundsStops ==
  [][ /\ status # "error"
      /\ IndexOutOfBounds =>
           (status' = "error" /\ result' = VUnit /\ heap' = heap) ]_vars

C17_Witness ==
  /\ status = "error"
  /\ result = VUnit
  /\ \E instructions \in {program.bytecode[c.function_handle + 1]} :
       /\ c.program_counter < Len(instructions)
       /\ instructions[c.program_counter + 1].op = "SetArrayIndex"
       /\ Len(stack) >= 3
       /\ stack[Len(stack) - 1].n >= Len(heap[stack[Len(stack) - 2].n].items)

\* ------------------------------------------------------------------------
\* C18: a program that declares a in a block while an outer a exists reads
\* and writes the inner a inside the block and the outer a, with the value
\* it had before the block, after it; a block that assigns to a without
\* declaring it changes the outer a.  The run of every such program ends
\* with the value these rules give.
\* ------------------------------------------------------------------------
C18_BlockScope ==
  \A x \in ScopeCases :
    (ast = x.code /\ status \notin {"source", "compiled", "running"}) =>
       (status = "done" /\ result = x.expected)

C18_Witness ==
  /\ status = "done"
  /\ \E x \in ScopeCases : ast = x.code /\ x.shadow /\ result = VFloat(47)

\* ------------------------------------------------------------------------
\* C19: a loop with k iterations evaluates its condition k + 1 times and
\* is left when the condition is false; a `break` in an inner loop ends
\* the inner loop only and the outer loop runs all its iterations; a
\* program with a `break` that no loop of the same function encloses is
\* not compiled.  The pipeline ends every such program in the expected
\* state with the expected value.
\* ------------------------------------------------------------------------
C19_WhileAndBreak ==
  \A x \in WhileCases :
    /\ (ast = x.code /\ status \notin {"source", "compiled", "running"}) =>
          (status = x.status /\ result = x.expected)
    /\ (ast = x.code /\ x.status = "compile_error") =>
          status \in {"source", "compile_error"}

C19_Witness ==
  /\ status = "done"
  /\ \E x \in WhileCases : ast = x.code /\ x.nested /\ result = VFloat(MaxIter * 10 + MaxIter)

\* ------------------------------------------------------------------------
\* C20: in the typed tree of every function the type checker has defined,
\* the root is a Label node, every BreakToLabel made for a `return` carries
\* the label of that root (no loop label, no label of another function),
\* and running the tree never lets a break escape the function; when a
\* `return` is run it is the last thing the function does and its value is
\* the value of the function
\* ------------------------------------------------------------------------
RECURSIVE ReturnLabels(_)
ReturnLabels(n) ==
  (IF n.content = "BreakToLabel" /\ n.from = "return" THEN {n.label} ELSE {})
  \cup UNION { ReturnLabels(n.kids[i]) : i \in DOMAIN n.kids }

RECURSIVE ReturnInLoop(_)
ReturnInLoop(n) ==
  \/ n.content = "While" /\ ReturnLabels(n) # {}
  \/ \E i \in DOMAIN n.kids : ReturnInLoop(n.kids[i])

NormalFunctions ==
  { i \in DOMAIN inf.t.module.functions :
      inf.t.module.functions[i].implementation = "Normal" }

ReturnEndsFunction(r) ==
  /\ r.k # "break"
  /\ \A i \in DOMAIN r.ran :
       r.ran[i].what = "return" =>
         (i = Len(r.ran) /\ r.k = "normal" /\ r.v = r.ran[i].v)

C20_ReturnTargetsFunction ==
  \A i \in NormalFunctions :
    LET body == inf.t.module.functions[i].body
    IN /\ body.content = "Label"
       /\ ReturnLabels(body) \subseteq {body.label}
       /\ \A j \in NormalFunctions :
            i # j => inf.t.module.functions[j].body.label # body.label
       /\ ReturnEndsFunction(eval(body))

C20_Witness ==
  \E i, j \in NormalFunctions :
    /\ inf.t.module.functions[i].name_in_code = "h"
    /\ inf.t.module.functions[j].name_in_code = "f"
    /\ ReturnInLoop(inf.t.module.functions[i].body)
    /\ ReturnInLoop(inf.t.module.functions[j].body)
    /\ eval(inf.t.module.functions[i].body).v = VFloat(5)
    /\ eval(inf.t.module.functions[j].body).v = VFloat(10)

\* ------------------------------------------------------------------------
\* C21: when the solver has halted, the error list holds one "not
\* resolved" diagnostic for each constraint left undischarged, and the
\* diagnostic of a refused definition appears at most once for each
\* definition constraint of the list
\* ------------------------------------------------------------------------
NotResolvedErrors ==
  { i \in DOMAIN inf.errors :
      \E k \in { inf.constraints[j].kind : j \in DOMAIN inf.constraints } :
         inf.errors[i] = k \o " not resolved" }

AlreadyDefinedErrors ==
  { i \in DOMAIN inf.errors :
      inf.errors[i] = "function with that name and signature already defined" }

DefinitionConstraints ==
  { j \in DOMAIN inf.constraints :
      inf.constraints[j].kind \in {"FunctionDef", "GlobalDef"} }

C21_OneDiagnosticEach ==
  inf.phase = "done" =>
    /\ Cardinality(NotResolvedErrors) = Len(inf.unused_constraints)
    /\ Cardinality(AlreadyDefinedErrors) <= Cardinality(DefinitionConstraints)

\* ------------------------------------------------------------------------
\* C22: every global reference the solver has recorded names a global of
\* the module that is not a Repl global defined by the unit being inferred,
\* and the reference's symbol has a type
\* ------------------------------------------------------------------------
C22_ReplGlobalNotInScope ==
  \A r \in inf.global_references :
    /\ find_global(inf.globals, r[2]) # 0
    /\ \/ inf.globals[find_global(inf.globals, r[2])].global_type # "Repl"
       \/ ~inf.globals[find_global(inf.globals, r[2])].own
    /\ get_type(inf, r[1]) # NoType

\* the solver has halted; the unit defined the Repl global a and its
\* reference to a is left undischarged, while its reference to a global of an
\* earlier unit is recorded
C22_Witness ==
  /\ inf.phase = "done"
  /\ \E i \in DOMAIN inf.globals :
       /\ inf.globals[i].own /\ inf.globals[i].global_type = "Repl"
       /\ \E j \in DOMAIN inf.unused_constraints :
            /\ inf.constraints[inf.unused_constraints[j]].kind = "GlobalReference"
            /\ inf.constraints[inf.unused_constraints[j]].name = inf.globals[i].name
  /\ \E r \in inf.global_references :
       /\ ~inf.globals[find_global(inf.globals, r[2])].own
       /\ inf.globals[find_global(inf.globals, r[2])].global_type = "Repl"

\* ------------------------------------------------------------------------
\* C23: when the solver has halted, an array literal whose element symbol
\* has the type T has the type array(T), its Array constraint is not among
\* the constraints left undischarged, and no "not resolved" diagnostic was
\* pushed for it
\* ------------------------------------------------------------------------
ArrayConstraints ==
  { i \in DOMAIN inf.constraints :
      /\ inf.constraints[i].kind = "Array"
      /\ get_type(inf, inf.constraints[i].args[2]) # NoType }

C23_ArrayLiteralResolved ==
  inf.phase = "done" =>
    \A i \in ArrayConstraints :
      /\ get_type(inf, inf.constraints[i].args[1])
           = Type_Array(get_type(inf, inf.constraints[i].args[2]))
      /\ \A j \in DOMAIN inf.unused_constraints : inf.unused_constraints[j] # i
      /\ \A j \in DOMAIN inf.errors : inf.errors[j] # "Array not resolved"

\* ------------------------------------------------------------------------
\* C24: every polymorphic instance unit in the store imports the unit that
\* defines its polymorphic function and every other unit that defining unit
\* imports
\* ------------------------------------------------------------------------
InstanceUnits == DOMAIN store.poly_parents \cap store.units

C24_InstanceImports ==
  \A u \in InstanceUnits :
    /\ store.poly_parents[u] \in get_imports(store, u)
    /\ (get_imports(store, store.poly_parents[u]) \ {u}) \subseteq get_imports(store, u)

\* C24 as it holds: a turn of typecheck_new_polymorphic_instances that finds
\* a registered instance makes the referring unit import it; a turn that
\* creates an instance unit makes the new unit import the defining unit and
\* every unit the defining unit imports at that moment, and, once the
\* instance is registered, makes the referring unit import the new unit
C24_InstanceImportsAtCreation ==
  [][(load.phase = "instances" /\ load.pending # <<>>) =>
       IF poly_instance(store, Head(load.pending)[1], Head(load.pending)[2]) # 0
         THEN <<load.psid,
                poly_instance(store, Head(load.pending)[1], Head(load.pending)[2])>>
                \in store'.imports
         ELSE /\ store.gen + 1 \in store'.units
              /\ Head(load.pending)[1] \in get_imports(store', store.gen + 1)
              /\ get_imports(store, Head(load.pending)[1])
                   \subseteq get_imports(store', store.gen + 1)
              /\ store.gen + 1 \in DOMAIN store'.poly_parents
                   => <<load.psid, store.gen + 1>> \in store'.imports]_vars

\* a load has returned two instance units of one polymorphic function; the
\* defining unit imports both and the first does not import the second
C24_Witness ==
  /\ load.phase = "idle"
  /\ load.result = "ok"
  /\ \E u, w \in InstanceUnits \cap Range(load.new_units) :
       /\ u # w
       /\ store.poly_parents[u] = store.poly_parents[w]
       /\ store.poly_parents[u] \in get_imports(store, u)
       /\ {u, w} \subseteq get_imports(store, store.poly_parents[u])
       /\ w \notin get_imports(store, u)

\* ------------------------------------------------------------------------
\* C25: when the legacy program is about to run the CallFirstClassFunction
\* of a call with n >= 1 arguments, the top of the stack is a function that
\* takes n arguments and the n values below it are the values of the
\* arguments in source order; the program then has the value of the callee
\* applied to them, also when an argument is a block with locals or another
\* first-class call
\* ------------------------------------------------------------------------
\* the next instruction is the last CallFirstClassFunction of the top-level
\* function: the call of the outermost call expression
AtOuterFirstClassCall ==
  /\ callstack = <<>>
  /\ NextInstruction.op = "CallFirstClassFunction"
  /\ \A j \in (c.program_counter + 2)..Len(program.bytecode[c.function_handle + 1]) :
       program.bytecode[c.function_handle + 1][j].op # "CallFirstClassFunction"

C25_FirstClassCall ==
  \A x \in FirstClassCases :
    (ast = x.code /\ ver = "legacy") =>
      /\ status \in {"source", "compiled", "running", "done"}
      /\ status = "done" => result = x.expected
      /\ AtOuterFirstClassCall =>
           /\ Len(stack) > Len(x.args)
           /\ Top(stack).t = "Function"
           /\ Top(stack).n + 1 \in DOMAIN program.info
           /\ Len(program.info[Top(stack).n + 1].arguments) = Len(x.args)
           /\ SubSeq(stack, Len(stack) - Len(x.args), Len(stack) - 1) = x.args

\* the outer call of g(m(4), { let h = 3; h }) is about to run: the inner
\* first-class call has returned 5 and the block's local has been set
C25_Witness ==
  /\ ver = "legacy"
  /\ AtOuterFirstClassCall
  /\ \E x \in FirstClassCases :
       /\ ast = x.code
       /\ x.args = <<VFloat(5), VFloat(3)>>
       /\ ast.kids[5].kids[2].tag = "Tree"
       /\ SubSeq(stack, Len(stack) - 2, Len(stack) - 1) = x.args

\* ------------------------------------------------------------------------
\* C26: a struct instantiation is accepted exactly when the provided names
\* are pairwise distinct and are the names of the definition; the compiled
\* program then has one NewStruct, followed for each provided field in
\* source order by the push of its value and a StructFieldInit of a
\* position the definition gives that name
\* ------------------------------------------------------------------------
ExactFields(x) ==
  /\ \A i, j \in DOMAIN x.provided : i # j => x.provided[i] # x.provided[j]
  /\ Range(x.provided) = Range(x.fields)

\* instructions[from + 1 ..] are NewStruct, then a Push and a StructFieldInit
\* for each provided field
StructCodeAt(instructions, from, x) ==
  /\ from + 1 + 2 * Len(x.provided) <= Len(instructions)
  /\ instructions[from + 1] = BC_NewStruct("v")
  /\ \A i \in DOMAIN x.provided :
       /\ instructions[from + 2 * i] = BC_Push(VFloat(i))
       /\ instructions[from + 2 * i + 1].op = "StructFieldInit"
       /\ instructions[from + 2 * i + 1].n + 1 \in DOMAIN x.fields
       /\ x.fields[instructions[from + 2 * i + 1].n + 1] = x.provided[i]

StructInstructions(ops) ==
  { p \in UNION { {f} \X (1..Len(program.bytecode[f])) : f \in DOMAIN program.bytecode } :
      program.bytecode[p[1]][p[2]].op \in ops }

C26_StructInstantiation ==
  \A x \in StructCases :
    ast = x.code =>
      /\ status # "source" => (status = "compile_error" <=> ~ExactFields(x))
      /\ status \notin {"source", "compile_error"} =>
           /\ Cardinality(StructInstructions({"NewStruct"})) = 1
           /\ \E f \in DOMAIN program.bytecode :
                \E from \in 0..Len(program.bytecode[f]) :
                   StructCodeAt(program.bytecode[f], from, x)

\* C26 as it holds: acceptance as above; when the value of the instantiation
\* is used the program has the one NewStruct and, for each provided field in
\* source order, the push of its value and a StructFieldInit of the last
\* position the definition gives that name; when the instantiation is a
\* statement no NewStruct and no StructFieldInit is emitted
C26_StructInstantiationUsed ==
  \A x \in StructCases :
    ast = x.code =>
      /\ status # "source" => (status = "compile_error" <=> ~ExactFields(x))
      /\ (status \notin {"source", "compile_error"} /\ x.used) =>
           /\ Cardinality(StructInstructions({"NewStruct"})) = 1
           /\ \E f \in DOMAIN program.bytecode :
                \E from \in 0..Len(program.bytecode[f]) :
                   /\ StructCodeAt(program.bytecode[f], from, x)
                   /\ \A i \in DOMAIN x.provided :
                        \A j \in DOMAIN x.fields :
                          x.fields[j] = x.provided[i] =>
                            j <= program.bytecode[f][from + 2 * i + 1].n + 1
      /\ (status \notin {"source", "compile_error"} /\ ~x.used) =>
           StructInstructions({"NewStruct", "StructFieldInit"}) = {}

\* v(y: 1, x: 2) for the definition with x before y has been compiled in
\* value position: the fields are initialised in source order, y first
C26_Witness ==
  /\ status = "compiled"
  /\ \E x \in StructCases :
       /\ ast = x.code
       /\ x.used
       /\ x.fields = <<"x", "y">>
       /\ x.provided = <<"y", "x">>
       /\ \E f \in DOMAIN program.bytecode :
            \E from \in 0..Len(program.bytecode[f]) :
               /\ StructCodeAt(program.bytecode[f], from, x)
               /\ program.bytecode[f][from + 3] = BC_StructFieldInit(1)
               /\ program.bytecode[f][from + 5] = BC_StructFieldInit(0)

\* ------------------------------------------------------------------------
\* C27: in a compiled program the function handles are pairwise distinct,
\* the handle of each function is its index in program.bytecode and
\* program.info, and every CallFunction of a function names the function
\* that was bound to the called name when the call was compiled, so the
\* call runs that function
\* ------------------------------------------------------------------------
FunctionCalls ==
  { p \in UNION { {f} \X (1..Len(program.bytecode[f])) : f \in DOMAIN program.bytecode } :
      /\ program.bytecode[p[1]][p[2]].op = "CallFunction"
      /\ program.bytecode[p[1]][p[2]].s # "Intrinsic" }

C27_FunctionHandles ==
  \A x \in DefinitionCases :
    (ast = x.code /\ status \notin {"source", "compile_error"}) =>
      /\ \A i, j \in DOMAIN program.handles :
           i # j => program.handles[i] # program.handles[j]
      /\ \A i \in DOMAIN program.handles : program.handles[i] = i - 1
      /\ \A p \in FunctionCalls :
           /\ program.bytecode[p[1]][p[2]].n + 1 \in DOMAIN program.info
           /\ program.info[program.bytecode[p[1]][p[2]].n + 1].name
                = x.names[Len(x.names)]
      /\ status \notin {"compiled", "running"} =>
           (status = "done" /\ result = VFloat(Len(x.names)))

\* ------------------------------------------------------------------------
\* C28: no step of the solver changes the type get_type returns for a type
\* symbol that already had one
\* ------------------------------------------------------------------------
C28_StableTypes ==
  [][\A ts \in inf.symbols :
       get_type(inf, ts) # NoType => get_type(inf', ts) = get_type(inf, ts)]_vars

\* ------------------------------------------------------------------------
\* The tree-walking interpreter (src/src/interpreter.rs)
\*
\* The Environment and the Result of a call are one record: values and
\* functions are the scope stacks, heap holds the contents of the arrays
\* (Rc<RefCell<Vec<Value>>>), err is the Err message ("" for Ok) and val the
\* Ok value.  Every operator returns its argument when err is set, which is
\* what `?` does.  Floats are integers; `/` is left out.
\* ------------------------------------------------------------------------
Environment_values(values, functions, hp) ==
  [values |-> values, functions |-> functions, loop_depth |-> 0,
   break_state |-> "NotBreaking", heap |-> hp, err |-> "", val |-> VUnit]

Ok(st, v) == [st EXCEPT !.val = v]
Err(st, msg) == [st EXCEPT !.err = msg]

\* scoped_get: the index of the innermost map that has the name, 0 for None
scoped_get(scopes, s) ==
  IF \E i \in DOMAIN scopes : s \in DOMAIN scopes[i]
    THEN CHOOSE i \in DOMAIN scopes :
           /\ s \in DOMAIN scopes[i]
           /\ \A j \in (i + 1)..Len(scopes) : s \notin DOMAIN scopes[j]
    ELSE 0

scoped_insert(scopes, s, t) ==
  [scopes EXCEPT ![Len(scopes)] = (s :> t) @@ @]

\* #[derive(PartialEq)] of Value: arrays are equal when their contents are
RECURSIVE interpreter_value_eq(_, _, _)
interpreter_value_eq(hp, a, b) ==
  IF a.t = "Array" /\ b.t = "Array"
    THEN /\ Len(hp[a.n]) = Len(hp[b.n])
         /\ \A i \in DOMAIN hp[a.n] : interpreter_value_eq(hp, hp[a.n][i], hp[b.n][i])
    ELSE a = b

\* to_f, to_b, to_array on the state the operand was evaluated in
expect_value(st, t, msg) ==
  IF st.err # "" \/ st.val.t = t THEN st ELSE Err(st, msg)

interpreter_array_index(array, index) ==
  IF index >= 0 /\ index < Len(array) THEN index ELSE -1

RECURSIVE interpret_with_env(_, _)
RECURSIVE interpret_instr(_, _, _)
RECURSIVE interpret_function_call(_, _, _, _)
RECURSIVE interpret_each(_, _, _)
RECURSIVE interpret_while(_, _)
RECURSIVE interpret_array(_, _, _, _)

to_f(e, st) == expect_value(interpret_with_env(e, st), "Float", "Expected float")
to_b(e, st) == expect_value(interpret_with_env(e, st), "Bool", "Expected boolean")
to_array(e, st) == expect_value(interpret_with_env(e, st), "Array", "Expected array")

\* the second operand of a binary operator and the result, a being the value
\* of the first
binary_result(op, a, s2) ==
  IF s2.err # "" THEN s2
  ELSE CASE op = "+" -> Ok(s2, VFloat(a.n + s2.val.n))
         [] op = "-" -> Ok(s2, VFloat(a.n - s2.val.n))
         [] op = "*" -> Ok(s2, VFloat(a.n * s2.val.n))
         [] op = ">" -> Ok(s2, VBool(a.n > s2.val.n))
         [] op = "<" -> Ok(s2, VBool(a.n < s2.val.n))
         [] op = "==" -> Ok(s2, VBool(interpreter_value_eq(s2.heap, a, s2.val)))
         [] OTHER -> Ok(s2, s2.val)

binary_operator(op, b, s1) ==
  IF s1.err # "" THEN s1
  ELSE CASE op \in {"+", "-", "*", ">", "<"} -> binary_result(op, s1.val, to_f(b, s1))
         [] op = "==" -> binary_result(op, s1.val, interpret_with_env(b, s1))
         [] op = "&&" -> IF s1.val = VBool(TRUE) THEN to_b(b, s1) ELSE s1
         [] op = "||" -> IF s1.val = VBool(TRUE) THEN s1 ELSE to_b(b, s1)

negate(s1) == IF s1.err # "" THEN s1 ELSE Ok(s1, VFloat(0 - s1.val.n))

\* for i in from..: interpret_with_env(&exprs[i], env)?
interpret_each(exprs, from, st) ==
  IF from > Len(exprs) \/ st.err # "" THEN st
  ELSE interpret_each(exprs, from + 1, interpret_with_env(exprs[from], st))

\* ("block", exprs) after env.values.push: every child when there is more
\* than one, then the last child, then env.values.pop()
block_last(exprs, st) ==
  IF st.err # "" THEN st ELSE interpret_with_env(exprs[Len(exprs)], st)

block_pop(st) ==
  IF st.err # "" THEN st
  ELSE [st EXCEPT !.values = SubSeq(@, 1, Len(@) - 1)]

interpret_block(exprs, st) ==
  IF Len(exprs) = 0 THEN Err(st, "panic: attempt to subtract with overflow")
  ELSE block_pop(block_last(exprs,
         IF Len(exprs) > 1
           THEN interpret_each(exprs, 1, [st EXCEPT !.values = Append(@, EmptyMap)])
           ELSE [st EXCEPT !.values = Append(@, EmptyMap)]))

let_insert(name, st) ==
  IF st.err # "" THEN st
  ELSE Ok([st EXCEPT !.values = scoped_insert(@, name, st.val)], VUnit)

assign_variable(var_symbol, st) ==
  IF st.err # "" THEN st
  ELSE IF scoped_get(st.values, var_symbol) = 0 THEN Err(st, "symbol was not defined")
  ELSE Ok([st EXCEPT !.values[scoped_get(st.values, var_symbol)][var_symbol] = st.val],
          VUnit)

\* `array[index] = v`: the value, then the array, then the index
assign_index_store(v, r, s3) ==
  IF s3.err # "" THEN s3
  ELSE IF interpreter_array_index(s3.heap[r], s3.val.n) = -1
    THEN Err(s3, "Index out of bounds error")
  ELSE Ok([s3 EXCEPT !.heap[r][s3.val.n + 1] = v], VUnit)

assign_index_array(v, index_expr, s2) ==
  IF s2.err # "" THEN s2 ELSE assign_index_store(v, s2.val.n, to_f(index_expr, s2))

assign_index(array_expr, index_expr, s1) ==
  IF s1.err # "" THEN s1 ELSE assign_index_array(s1.val, index_expr, to_array(array_expr, s1))

index_load(r, s2) ==
  IF s2.err # "" THEN s2
  ELSE IF interpreter_array_index(s2.heap[r], s2.val.n) = -1
    THEN Err(s2, "Index out of bounds error")
  ELSE Ok(s2, s2.heap[r][s2.val.n + 1])

index_array(index_expr, s1) ==
  IF s1.err # "" THEN s1 ELSE index_load(s1.val.n, to_f(index_expr, s1))

if_branch(exprs, s1) ==
  IF s1.err # "" THEN s1
  ELSE IF s1.val = VBool(TRUE) THEN interpret_with_env(exprs[2], s1)
  ELSE IF Len(exprs) = 3 THEN interpret_with_env(exprs[3], s1)
  ELSE Ok(s1, VUnit)

\* while env.break_state != Breaking && to_b(&exprs[0], env)? { body? }
while_body(exprs, s1) ==
  IF s1.err # "" THEN s1
  ELSE IF s1.val = VBool(TRUE) THEN interpret_while(exprs, interpret_with_env(exprs[2], s1))
  ELSE s1

interpret_while(exprs, st) ==
  IF st.err # "" \/ st.break_state = "Breaking" THEN st
  ELSE while_body(exprs, to_b(exprs[1], st))

while_end(st) ==
  IF st.err # "" THEN st
  ELSE Ok([st EXCEPT !.loop_depth = @ - 1, !.break_state = "NotBreaking"], VUnit)

\* literal_array: the elements in order, then the new array
interpret_array_push(exprs, from, contents, s1) ==
  IF s1.err # "" THEN s1
  ELSE interpret_array(exprs, from + 1, Append(contents, s1.val), s1)

interpret_array(exprs, from, contents, st) ==
  IF st.err # "" THEN st
  ELSE IF from > Len(exprs)
    THEN Ok([st EXCEPT !.heap = Append(@, contents)], VArray(Len(st.heap) + 1))
  ELSE interpret_array_push(exprs, from, contents, interpret_with_env(exprs[from], st))

\* interpret_function_call: the arguments in order, then the body in a new
\* Environment that shares the function table; the caller's values, loop
\* depth and break state are those of before the call
function_return(caller, s2) ==
  IF s2.err # "" THEN s2
  ELSE [s2 EXCEPT !.values = caller.values, !.loop_depth = caller.loop_depth,
                  !.break_state = caller.break_state]

\* for (v, n) in arg_values.into_iter().zip(&fun.args) { args.insert(n, v) }
zip_len(arg_values, names) ==
  IF Len(arg_values) < Len(names) THEN Len(arg_values) ELSE Len(names)

zip_args(arg_values, names) ==
  [n \in { names[i] : i \in 1..zip_len(arg_values, names) } |->
     arg_values[CHOOSE i \in 1..zip_len(arg_values, names) :
                  /\ names[i] = n
                  /\ \A j \in (i + 1)..zip_len(arg_values, names) : names[j] # n]]

function_enter(fun, arg_values, st) ==
  function_return(st,
    interpret_with_env(fun.expr,
      Environment_values(<<zip_args(arg_values, fun.args)>>, st.functions, st.heap)))

function_body(function_name, arg_values, st) ==
  IF scoped_get(st.functions, function_name) = 0
    THEN Err(st, "Found no function with this name")
  ELSE function_enter(st.functions[scoped_get(st.functions, function_name)][function_name],
                      arg_values, st)

function_argument(function_name, exprs, arg_values, s1) ==
  IF s1.err # "" THEN s1
  ELSE interpret_function_call(function_name, Tail(exprs), Append(arg_values, s1.val), s1)

interpret_function_call(function_name, exprs, arg_values, st) ==
  IF st.err # "" THEN st
  ELSE IF exprs = <<>> THEN function_body(function_name, arg_values, st)
  ELSE function_argument(function_name, exprs, arg_values,
                         interpret_with_env(Head(exprs), st))

\* ("fun", exprs)
define_function(exprs, st) ==
  IF exprs[1].tag # "Symbol" THEN Err(st, "expected a symbol")
  ELSE IF exprs[2].tag # "Tree" THEN Err(st, "expected an expression")
  ELSE IF \E i \in DOMAIN exprs[2].kids : exprs[2].kids[i].tag # "Symbol"
    THEN Err(st, "expected a symbol")
  ELSE Ok([st EXCEPT !.functions =
             scoped_insert(@, exprs[1].s,
               [args |-> [i \in DOMAIN exprs[2].kids |-> exprs[2].kids[i].s],
                expr |-> exprs[3]])],
          VUnit)

interpret_call(exprs, st) ==
  IF exprs[1].tag # "Symbol" THEN Err(st, "expected symbol")
  ELSE IF exprs[1].s \in {"+", "-", "*", ">", "<"} /\ Len(exprs) = 3
    THEN binary_operator(exprs[1].s, exprs[3], to_f(exprs[2], st))
  ELSE IF exprs[1].s = "==" /\ Len(exprs) = 3
    THEN binary_operator("==", exprs[3], interpret_with_env(exprs[2], st))
  ELSE IF exprs[1].s \in {"&&", "||"} /\ Len(exprs) = 3
    THEN binary_operator(exprs[1].s, exprs[3], to_b(exprs[2], st))
  ELSE IF exprs[1].s = "-" /\ Len(exprs) = 2 THEN negate(to_f(exprs[2], st))
  ELSE interpret_function_call(exprs[1].s, Tail(exprs), <<>>, st)

interpret_instr(instr, exprs, st) ==
  CASE instr = "call" -> interpret_call(exprs, st)
    [] instr = "block" -> interpret_block(exprs, st)
    [] instr = "let" ->
         IF exprs[1].tag # "Symbol" THEN Err(st, "expected a symbol")
         ELSE let_insert(exprs[1].s, interpret_with_env(exprs[2], st))
    [] instr = "assign" /\ Len(exprs) = 2 /\ exprs[1].tag = "Symbol" ->
         assign_variable(exprs[1].s, interpret_with_env(exprs[2], st))
    [] instr = "assign" /\ Len(exprs) = 2 /\ exprs[1].tag = "Tree" ->
         IF exprs[1].s = "index" /\ Len(exprs[1].kids) = 2
           THEN assign_index(exprs[1].kids[1], exprs[1].kids[2],
                             interpret_with_env(exprs[2], st))
           ELSE Err(st, "can't assign to this")
    [] instr = "if" ->
         IF Len(exprs) < 2 \/ Len(exprs) > 3 THEN Err(st, "malformed if expression")
         ELSE if_branch(exprs, to_b(exprs[1], st))
    [] instr = "while" ->
         IF Len(exprs) # 2 THEN Err(st, "malformed while block")
         ELSE while_end(interpret_while(exprs, [st EXCEPT !.loop_depth = @ + 1]))
    [] instr = "fun" -> define_function(exprs, st)
    [] instr = "literal_array" -> interpret_array(exprs, 1, <<>>, st)
    [] instr = "index" ->
         IF Len(exprs) = 2 THEN index_array(exprs[2], to_array(exprs[1], st))
         ELSE Err(st, "index instruction expected 2 arguments")
    [] OTHER -> Err(st, "instruction is not supported by the interpreter")

interpret_with_env(e, st) ==
  IF st.err # "" THEN st
  ELSE IF st.break_state = "Breaking" THEN Ok(st, VUnit)
  ELSE CASE e.tag = "Tree" -> interpret_instr(e.s, e.kids, st)
         [] e.tag = "Symbol" ->
              IF e.s = "break"
                THEN IF st.loop_depth > 0
                       THEN Ok([st EXCEPT !.break_state = "Breaking"], VUnit)
                       ELSE Err(st, "can't break outside a loop")
              ELSE IF scoped_get(st.values, e.s) = 0 THEN Err(st, "symbol was not defined")
              ELSE Ok(st, st.values[scoped_get(st.values, e.s)][e.s])
         [] e.tag = "LiteralFloat" -> Ok(st, VFloat(e.v))
         [] e.tag = "LiteralBool" -> Ok(st, VBool(e.v = 1))

\* interpreter::interpret
interpreter_interpret(e) ==
  interpret_with_env(e, Environment_values(<<EmptyMap>>, <<EmptyMap>>, <<>>))

\* ------------------------------------------------------------------------
\* The tree-walking interpreter state machine: a program is interpreted in
\* one step; result is the value and heap the arrays it left
\* ------------------------------------------------------------------------
MaxBlock == 3

\* the children of the block under test: `x = x * 10 + i`, a literal, or x
BlockChildren ==
  [kind : {"step"}, i : 1..2] \cup [kind : {"literal"}, i : 1..2]
    \cup [kind : {"read"}, i : {0}]

BlockChild(ch) ==
  CASE ch.kind = "step" ->
         Tree("assign",
              <<Symbol("x"),
                Tree("call", <<Symbol("+"),
                               Tree("call", <<Symbol("*"), Symbol("x"), LiteralFloat(10)>>),
                               LiteralFloat(ch.i)>>)>>)
    [] ch.kind = "literal" -> LiteralFloat(ch.i)
    [] ch.kind = "read" -> Symbol("x")

BlockCases == UNION { [1..n -> BlockChildren] : n \in 1..MaxBlock }

\* { let x = 0; let y = { children }; [x, y] }
BlockProgram(children) ==
  Tree("block",
       <<Tree("let", <<Symbol("x"), LiteralFloat(0)>>),
         Tree("let", <<Symbol("y"),
                       Tree("block", [n \in DOMAIN children |-> BlockChild(children[n])])>>),
         Tree("literal_array", <<Symbol("x"), Symbol("y")>>)>>)

BlockPrograms == { BlockProgram(children) : children \in BlockCases }

InitInterpret ==
  /\ caret = Caret_new
  /\ text_buffer = <<>>
  /\ ver = "tree"
  /\ ast \in BlockPrograms
  /\ program = BytecodeProgram(EmptyMap, <<>>)
  /\ stack = <<>>
  /\ callstack = <<>>
  /\ c = NoCall
  /\ heap = <<>>
  /\ status = "source"
  /\ result = VUnit
  /\ steps = 0
  /\ store = Compiler_new(FALSE)
  /\ load = LoadIdle
  /\ history = HistoryInit
  /\ inf = InfIdle

\* interpreter::interpret
interpret_tree ==
  /\ ver = "tree"
  /\ status = "source"
  /\ status' = IF interpreter_interpret(ast).err # "" THEN "runtime_error" ELSE "done"
  /\ result' = interpreter_interpret(ast).val
  /\ heap' = interpreter_interpret(ast).heap
  /\ UNCHANGED <<ver, ast, program, stack, callstack, c, steps, store, load, history, inf,
               editvars>>

NextInterpret == interpret_tree

SpecInterpret == InitInterpret /\ [][NextInterpret]_vars

\* what a block that evaluates each child once, in order, leaves in x
RECURSIVE BlockOnce(_, _, _)
BlockOnce(children, from, x) ==
  IF from > Len(children) THEN x
  ELSE BlockOnce(children, from + 1,
                 IF children[from].kind = "step" THEN x * 10 + children[from].i ELSE x)

\* the value of the last child after every child was evaluated once
BlockValue(children) ==
  CASE children[Len(children)].kind = "step" -> VUnit
    [] children[Len(children)].kind = "literal" -> VFloat(children[Len(children)].i)
    [] children[Len(children)].kind = "read" -> VFloat(BlockOnce(children, 1, 0))

\* C29: a block of the tree-walking interpreter evaluates each child exactly
\* once, in source order, and yields the value of the last child: the
\* program `let x = 0; let y = { children }; [x, y]` ends with x holding the
\* effect of every step once and y the value of the last child
C29_BlockOnce ==
  \A children \in BlockCases :
    (ver = "tree" /\ ast = BlockProgram(children) /\ status # "source") =>
      /\ status = "done"
      /\ result.t = "Array"
      /\ heap[result.n] = <<VFloat(BlockOnce(children, 1, 0)), BlockValue(children)>>

\* ------------------------------------------------------------------------
\* The text editor (src/src/main.rs): a Caret over a Rope
\*
\* The Rope is the sequence of its chars.  A char is one of "a" (one byte of
\* UTF-8), "nl" (the line feed), "e_acute" (U+00E9, two bytes) and "acute"
\* (the combining U+0301, two bytes, which extends the grapheme before it).
\* Indices are char indices from 0, as those of the Rope are.
\* ------------------------------------------------------------------------
Chars == {"a", "nl", "e_acute", "acute"}

\* str::len of one char: its bytes in UTF-8
len_utf8(ch) == IF ch \in {"a", "nl"} THEN 1 ELSE 2

RECURSIVE str_len(_)
str_len(text) == IF text = <<>> THEN 0 ELSE len_utf8(Head(text)) + str_len(Tail(text))

Rope_len_chars(text) == Len(text)

\* a grapheme starts at char index p
grapheme_boundary(text, p) ==
  \/ p = 0
  \/ p >= Len(text)
  \/ ~(text[p + 1] = "acute" /\ text[p] # "nl")

Rope_next_grapheme_boundary(text, pos) ==
  IF pos >= Len(text) THEN Len(text)
  ELSE CHOOSE p \in (pos + 1)..Len(text) :
         /\ grapheme_boundary(text, p)
         /\ \A q \in (pos + 1)..(p - 1) : ~grapheme_boundary(text, q)

Rope_prev_grapheme_boundary(text, pos) ==
  IF pos = 0 THEN 0
  ELSE CHOOSE p \in 0..(pos - 1) :
         /\ grapheme_boundary(text, p)
         /\ \A q \in (p + 1)..(pos - 1) : ~grapheme_boundary(text, q)

\* graphemes().count()
graphemes_count(text) ==
  Cardinality({ p \in 0..(Len(text) - 1) : grapheme_boundary(text, p) })

line_breaks(text, pos) == Cardinality({ p \in 1..pos : text[p] = "nl" })

Rope_len_lines(text) == line_breaks(text, Len(text)) + 1

\* Rope::char_to_line: one past the end gives the line index one past the end
Rope_char_to_line(text, pos) ==
  IF pos = Len(text) THEN Rope_len_lines(text) ELSE line_breaks(text, pos)

Rope_line_to_char(text, line_idx) ==
  IF line_idx = 0 THEN 0
  ELSE CHOOSE p \in 1..Len(text) : text[p] = "nl" /\ line_breaks(text, p) = line_idx

\* Rope::line: the chars of the line, its line break included
Rope_line(text, line_idx) ==
  SubSeq(text, Rope_line_to_char(text, line_idx) + 1,
         IF line_idx + 1 < Rope_len_lines(text)
           THEN Rope_line_to_char(text, line_idx + 1)
           ELSE Len(text))

\* the state the caret functions work on: the Caret, the Rope and whether a
\* call has panicked
Editor(crt, text, panicked) == [caret |-> crt, text |-> text, panicked |-> panicked]

step_right(crt, text) ==
  Editor([crt EXCEPT !.pos = IF crt.pos < Rope_len_chars(text)
                               THEN Rope_next_grapheme_boundary(text, crt.pos)
                               ELSE @,
                     !.pos_remembered = IF crt.pos < Rope_len_chars(text)
                                          THEN Rope_next_grapheme_boundary(text, crt.pos)
                                          ELSE crt.pos],
         text, FALSE)

\* prev_grapheme_boundary panics on an index past the end of the Rope
step_left(crt, text) ==
  IF crt.pos > 0 /\ crt.pos > Rope_len_chars(text) THEN Editor(crt, text, TRUE)
  ELSE Editor([crt EXCEPT !.pos = Rope_prev_grapheme_boundary(text, crt.pos),
                          !.pos_remembered = Rope_prev_grapheme_boundary(text, crt.pos)],
              text, FALSE)

char_to_line(text, pos) ==
  IF Rope_char_to_line(text, pos) = Rope_len_lines(text)
    THEN Rope_char_to_line(text, pos) - 1
    ELSE Rope_char_to_line(text, pos)

\* the while loop of line_change: the char offset of a grapheme offset
RECURSIVE line_offset(_, _, _)
line_offset(line, line_offset_graphemes, pos) ==
  IF line_offset_graphemes > 0 /\ pos < Rope_len_chars(line)
    THEN line_offset(line, line_offset_graphemes - 1,
                     Rope_next_grapheme_boundary(line, pos))
    ELSE pos

\* line_change; `count() - 1` of a line without graphemes panics in a build
\* with overflow checks and wraps in one without
line_change(crt, text, dir, overflow_checks) ==
  IF crt.pos > Rope_len_chars(text) THEN Editor(crt, text, TRUE)
  ELSE LET new_line == char_to_line(text, crt.pos) + dir
       IN IF new_line < 0 \/ new_line >= Rope_len_lines(text)
            THEN Editor(crt, text, FALSE)
          ELSE IF crt.pos_remembered > Rope_len_chars(text) THEN Editor(crt, text, TRUE)
          ELSE LET line_start_pos ==
                     Rope_line_to_char(text, char_to_line(text, crt.pos_remembered))
                   line_offset_graphemes ==
                     graphemes_count(SubSeq(text, line_start_pos + 1, crt.pos_remembered))
                   line == Rope_line(text, new_line)
                   new_line_graphemes ==
                     IF graphemes_count(line) = 0 THEN usize_MAX
                     ELSE graphemes_count(line) - 1
               IN IF graphemes_count(line) = 0 /\ overflow_checks
                    THEN Editor(crt, text, TRUE)
                  ELSE Editor(
                         [crt EXCEPT !.pos =
                            Rope_line_to_char(text, new_line)
                              + line_offset(line,
                                            IF line_offset_graphemes > new_line_graphemes
                                              THEN new_line_graphemes
                                              ELSE line_offset_graphemes,
                                            0)],
                         text, FALSE)

step_up(crt, text, overflow_checks) == line_change(crt, text, -1, overflow_checks)

step_down(crt, text, overflow_checks) == line_change(crt, text, 1, overflow_checks)

\* Rope::insert panics on an index past the end; pos advances by the bytes
\* of the inserted text
insert_text(crt, text_buf, text) ==
  IF crt.pos > Rope_len_chars(text_buf) THEN Editor(crt, text_buf, TRUE)
  ELSE Editor([crt EXCEPT !.pos = @ + str_len(text)],
              SubSeq(text_buf, 1, crt.pos) \o text
                \o SubSeq(text_buf, crt.pos + 1, Len(text_buf)),
              FALSE)

backspace_text(crt, text_buf) ==
  IF crt.pos = 0 THEN Editor(crt, text_buf, FALSE)
  ELSE IF crt.pos > Rope_len_chars(text_buf) THEN Editor(crt, text_buf, TRUE)
  ELSE Editor([crt EXCEPT !.pos = Rope_prev_grapheme_boundary(text_buf, crt.pos)],
              SubSeq(text_buf, 1, Rope_prev_grapheme_boundary(text_buf, crt.pos))
                \o SubSeq(text_buf, crt.pos + 1, Len(text_buf)),
              FALSE)

\* the head of the main loop: a held shift key sets the marker
marker_set(crt, shift_down) ==
  IF ~crt.marker.some /\ shift_down
    THEN [crt EXCEPT !.marker = [some |-> TRUE, v |-> crt.pos]]
    ELSE crt

caret_changed(crt, shift_down) ==
  IF ~shift_down THEN [crt EXCEPT !.marker = [some |-> FALSE, v |-> 0]] ELSE crt

\* ------------------------------------------------------------------------
\* The text editor state machine: one event of the main loop per step
\* ------------------------------------------------------------------------
MaxText == 3
MaxChars == 4

Texts == UNION { [1..n -> Chars] : n \in 0..MaxText }

\* the text of a TextInput event
InputTexts == { <<ch>> : ch \in {"a", "e_acute", "acute"} }

InitEdit ==
  /\ ver = "editor"
  /\ ast = LiteralFloat(0)
  /\ program = BytecodeProgram(EmptyMap, <<>>)
  /\ stack = <<>>
  /\ callstack = <<>>
  /\ c = NoCall
  /\ heap = <<>>
  /\ status = "editing"
  /\ result = VUnit
  /\ steps = 0
  /\ store = Compiler_new(FALSE)
  /\ load = LoadIdle
  /\ history = HistoryInit
  /\ inf = InfIdle
  /\ caret = Caret_new
  /\ text_buffer \in Texts

\* what an event handler leaves: a panic ends the program
SetEditor(ed, shift_down) ==
  /\ status' = IF ed.panicked THEN "panic" ELSE "editing"
  /\ caret' = IF ed.panicked THEN caret ELSE caret_changed(ed.caret, shift_down)
  /\ text_buffer' = ed.text
  /\ UNCHANGED <<ver, ast, program, stack, callstack, c, heap, result, steps>>
  /\ UNCHANGED <<loadvars, infvars>>

KeyDown_Left ==
  /\ status = "editing"
  /\ \E shift_down \in BOOLEAN :
       SetEditor(step_left(marker_set(caret, shift_down), text_buffer), shift_down)

KeyDown_Right ==
  /\ status = "editing"
  /\ \E shift_down \in BOOLEAN :
       SetEditor(step_right(marker_set(caret, shift_down), text_buffer), shift_down)

KeyDown_Up ==
  /\ status = "editing"
  /\ \E shift_down \in BOOLEAN, overflow_checks \in BOOLEAN :
       SetEditor(step_up(marker_set(caret, shift_down), text_buffer, overflow_checks),
                 shift_down)

KeyDown_Down ==
  /\ status = "editing"
  /\ \E shift_down \in BOOLEAN, overflow_checks \in BOOLEAN :
       SetEditor(step_down(marker_set(caret, shift_down), text_buffer, overflow_checks),
                 shift_down)

KeyDown_Backspace ==
  /\ status = "editing"
  /\ \E shift_down \in BOOLEAN :
       SetEditor(backspace_text(marker_set(caret, shift_down), text_buffer), shift_down)

\* Event::TextInput: the marker is left as the head of the loop set it
TextInput ==
  /\ status = "editing"
  /\ \E shift_down \in BOOLEAN, text \in InputTexts :
       /\ Len(text_buffer) + Len(text) <= MaxChars
       /\ SetEditor(insert_text(marker_set(caret, shift_down), text_buffer, text), TRUE)

NextEdit ==
  \/ KeyDown_Left
  \/ KeyDown_Right
  \/ KeyDown_Up
  \/ KeyDown_Down
  \/ KeyDown_Backspace
  \/ TextInput

SpecEdit == InitEdit /\ [][NextEdit]_vars

\* C30: after any sequence of step_left, step_right, step_up, step_down,
\* insert_text and backspace_text events the caret is inside the text:
\* 0 <= pos <= len_chars and pos_remembered <= len_chars
C30_CaretInBounds ==
  ver = "editor" =>
    /\ 0 <= caret.pos
    /\ caret.pos <= Rope_len_chars(text_buffer)
    /\ caret.pos_remembered <= Rope_len_chars(text_buffer)

============================================================================
